---- MODULE Spec2Model ----
(***************************************************************************)
(* Doodle Jump for BadgeVMS (sdk_apps/doodle-jump/main.c): the simulation  *)
(* core as a state machine.  One step of the machine is one SDL callback:  *)
(* SDL_AppEvent (a key goes down or up) or SDL_AppIterate (one frame:      *)
(* handle_input followed by update_game).                                  *)
(*                                                                         *)
(* Numbers.  The C code computes in float.  Here every float quantity      *)
(* (positions, velocities, extents, camera_y, shoot_timer, move_speed) is  *)
(* a fixed-point integer counted in 1/SC of a unit; products and quotients *)
(* are rounded toward zero (TruncDiv).  Elapsed time is kept in whole      *)
(* milliseconds (time_diff), delta_time being time_diff / 16.              *)
(*                                                                         *)
(* Random draws.  SDL_rand and rand are library functions; their results   *)
(* are inputs of the step.  A call of generate_platforms reads its draws   *)
(* from a "stream": a record of cyclic sequences, the k-th platform that   *)
(* the call creates using the k-th element of each.                        *)
(***************************************************************************)
EXTENDS Integers, Sequences, FiniteSets, TLC

\* ------------------------------------------------------------ constants
\* Fixed-point scale of the float quantities: 1 unit = SC steps.
SC == 100

WINDOW_WIDTH == 720
WINDOW_HEIGHT == 720
PLAYER_WIDTH == 40
PLAYER_HEIGHT == 40
PLATFORM_WIDTH == 65
PLATFORM_HEIGHT == 15
MAX_PLATFORMS == 100
PLATFORM_SPACING_MIN == 70
PLATFORM_SPACING_MAX == 110
\* 0.8f, in 1/SC
GRAVITY == 80
\* -18.0f and -22.0f, in units
JUMP_FORCE == -18
SPRING_JUMP_FORCE == -22
\* 6.0f, in units
PLAYER_SPEED == 6
\* 0.3f and 0.85f, in 1/SC
PLAYER_ACCELERATION == 30
PLAYER_FRICTION == 85
MAX_PROJECTILES == 10
\* -7.0f, in units
PROJECTILE_SPEED == -7
PROJECTILE_WIDTH == 8
PROJECTILE_HEIGHT == 16
MAX_MONSTERS == 20
MONSTER_WIDTH == 70
MONSTER_HEIGHT == 90
MONSTER_SPAWN_SCORE_MIN == 100
MONSTER_MAX_SCORE == 5000
\* 0.03f, in 1/SC
MONSTER_SPEED == 3

\* ------------------------------------------------------------ arithmetic
\* Quotient rounded toward zero: C's (int) cast, and the rounding of the
\* fixed-point products.
TruncDiv(a, b) ==
    IF a >= 0 THEN a \div b ELSE -((-a) \div b)

\* v * delta_time, delta_time = time_diff / 16.0f
TimesDt(v, time_diff) ==
    TruncDiv(v * time_diff, 16)

\* ------------------------------------------------------------ random draws
\* The k-th draw (k = 0, 1, ...) of a cyclic sequence of draws.
Draw(seq, k) ==
    seq[(k % Len(seq)) + 1]

\* A variant of PlatformTypeOf whose ranges end one draw later.
PlatformTypeOfInclusive(rand_type) ==
    IF rand_type <= 85 THEN "PLATFORM_NORMAL"
    ELSE IF rand_type <= 90 THEN "PLATFORM_MOVING"
    ELSE IF rand_type <= 95 THEN "PLATFORM_BREAKABLE"
    ELSE "PLATFORM_SPRING"

\* ------------------------------------------------------------ platforms
\* if / else-if chain on rand_type = SDL_rand(100)
PlatformTypeOf(rand_type) ==
    IF rand_type < 85 THEN "PLATFORM_NORMAL"
    ELSE IF rand_type < 90 THEN "PLATFORM_MOVING"
    ELSE IF rand_type < 95 THEN "PLATFORM_BREAKABLE"
    ELSE "PLATFORM_SPRING"

\* move_speed = score / 800.0f + SDL_rand(4) / 20.0f, clamped to [0.5, 1.0]
MoveSpeedOf(score, rand4) ==
    LET raw == TruncDiv(score * SC, 800) + TruncDiv(rand4 * SC, 20)
    IN  IF raw < 50 THEN 50 ELSE IF raw > 100 THEN 100 ELSE raw

\* The platform written into a slot: x and the type-dependent fields from the
\* k-th draws of stream s.  id and rand_type are ghost fields: the number of
\* the platform in its session, in creation order, and the draw
\* SDL_rand(100) that chose its type (-1 for the starting platform).
NewPlatform(current_y, k, s, score, id) ==
    LET type == PlatformTypeOf(Draw(s.type, k))
        moving == type = "PLATFORM_MOVING"
    IN  [x |-> Draw(s.x, k) * SC,
         y |-> current_y,
         width |-> PLATFORM_WIDTH * SC,
         height |-> PLATFORM_HEIGHT * SC,
         type |-> type,
         active |-> TRUE,
         move_direction |-> IF moving THEN (IF Draw(s.dir, k) = 0 THEN 1 ELSE -1) ELSE 0,
         move_speed |-> IF moving THEN MoveSpeedOf(score, Draw(s.speed, k)) ELSE 0,
         id |-> id,
         rand_type |-> Draw(s.type, k)]

\* additional_spacing = (int)(((-current_y) / 500.0f) * 15), at most 30
AdditionalSpacing(current_y) ==
    LET a == TruncDiv((-current_y) * 15, 500 * SC)
    IN  IF a > 30 THEN 30 ELSE a

\* current_y -= PLATFORM_SPACING_MIN + SDL_rand(MAX - MIN) + additional_spacing
NextPlatformY(current_y, k, s) ==
    current_y - (PLATFORM_SPACING_MIN + Draw(s.gap, k) + AdditionalSpacing(current_y)) * SC

\* A variant of StartPlatform placed at the bottom edge of the window.
StartPlatformLow ==
    [x |-> (WINDOW_WIDTH \div 2 - PLATFORM_WIDTH \div 2) * SC,
     y |-> (WINDOW_HEIGHT - PLATFORM_HEIGHT) * SC,
     width |-> PLATFORM_WIDTH * SC,
     height |-> PLATFORM_HEIGHT * SC,
     type |-> "PLATFORM_NORMAL",
     active |-> TRUE,
     move_direction |-> 0,
     move_speed |-> 0,
     id |-> 0,
     rand_type |-> -1]

\* The fixed starting platform of a session.
StartPlatform ==
    [x |-> (WINDOW_WIDTH \div 2 - PLATFORM_WIDTH \div 2) * SC,
     y |-> (WINDOW_HEIGHT - PLATFORM_HEIGHT - 50) * SC,
     width |-> PLATFORM_WIDTH * SC,
     height |-> PLATFORM_HEIGHT * SC,
     type |-> "PLATFORM_NORMAL",
     active |-> TRUE,
     move_direction |-> 0,
     move_speed |-> 0,
     id |-> 0,
     rand_type |-> -1]

\* The for loop of the initial generation: i = 1, 2, ... while i < MAX_PLATFORMS
\* and current_y > -1000.  plats is the pool prefix platforms[0 .. num_platforms-1]
\* (slot i of the C array is plats[i + 1]).
RECURSIVE InitialLoop(_, _, _, _, _)
InitialLoop(plats, current_y, i, s, score) ==
    IF i < MAX_PLATFORMS /\ current_y > -1000 * SC
    THEN InitialLoop(Append(plats, NewPlatform(current_y, i - 1, s, score, Len(plats))),
                     NextPlatformY(current_y, i - 1, s), i + 1, s, score)
    ELSE plats

\* A variant of InactiveSlot that takes the highest inactive index.
InactiveSlotHighest(plats) ==
    IF \E i \in 1..Len(plats) : ~plats[i].active
    THEN (CHOOSE i \in 1..Len(plats) :
              /\ ~plats[i].active
              /\ \A j \in (i + 1)..Len(plats) : plats[j].active) - 1
    ELSE -1

\* Lowest index i < num_platforms with an inactive platform, or -1.
InactiveSlot(plats) ==
    IF \E i \in 1..Len(plats) : ~plats[i].active
    THEN (CHOOSE i \in 1..Len(plats) :
              /\ ~plats[i].active
              /\ \A j \in 1..(i - 1) : plats[j].active) - 1
    ELSE -1

\* highest_y: camera_y, lowered to the smallest y of an active platform.
HighestY(plats, camera_y) ==
    LET ys == {camera_y} \cup {plats[i].y : i \in {j \in 1..Len(plats) : plats[j].active}}
    IN  CHOOSE y \in ys : \A z \in ys : y <= z

\* The while loop of the continuous generation; k counts the platforms created
\* by this call, next_id the platforms created in the session.
RECURSIVE ContinuousLoop(_, _, _, _, _, _, _)
ContinuousLoop(plats, current_y, target_height, k, s, score, next_id) ==
    IF current_y > target_height /\ Len(plats) < MAX_PLATFORMS
    THEN LET found == InactiveSlot(plats)
             slot == IF found = -1 THEN Len(plats) ELSE found
             p == NewPlatform(current_y, k, s, score, next_id)
             written == IF found = -1 THEN Append(plats, p)
                        ELSE [plats EXCEPT ![slot + 1] = p]
         IN  ContinuousLoop(written, NextPlatformY(current_y, k, s), target_height,
                            k + 1, s, score, next_id + 1)
    ELSE [platforms |-> plats, next_id |-> next_id]

\* A variant of TargetHeight at the top of the screen above the visible one.
TargetHeightNear(camera_y) ==
    camera_y - WINDOW_HEIGHT * SC

\* target_height = camera_y - WINDOW_HEIGHT - 200
TargetHeight(camera_y) ==
    camera_y - (WINDOW_HEIGHT + 200) * SC

\* generate_platforms(game, is_initial_generation)
generate_platforms(g, is_initial_generation, s) ==
    IF is_initial_generation
    THEN LET plats == InitialLoop(<<StartPlatform>>,
                                  StartPlatform.y - PLATFORM_SPACING_MIN * SC, 1, s, g.score)
         IN  [g EXCEPT !.platforms = plats, !.num_platforms = Len(plats),
                       !.next_id = Len(plats)]
    ELSE LET highest_y == HighestY(g.platforms, g.camera_y)
             target_height == TargetHeight(g.camera_y)
             r == ContinuousLoop(g.platforms, highest_y - PLATFORM_SPACING_MIN * SC,
                                 target_height, 0, s, g.score, g.next_id)
         IN  [g EXCEPT !.platforms = r.platforms, !.num_platforms = Len(r.platforms),
                       !.next_id = r.next_id]

\* ------------------------------------------------------------ init_game
\* init_game(game).  The pools are kept as their live prefix (slots at an index
\* >= num_* are never read before they are written again), so emptying a pool
\* leaves the empty sequence.  s supplies the draws of the initial generation.
init_game(g, s) ==
    LET g1 == [g EXCEPT
                 !.player = [x |-> (WINDOW_WIDTH \div 2 - PLAYER_WIDTH \div 2) * SC,
                             y |-> g.player.y,
                             vx |-> 0, vy |-> 0,
                             width |-> PLAYER_WIDTH * SC,
                             height |-> PLAYER_HEIGHT * SC,
                             on_ground |-> TRUE,
                             facing_direction |-> 1,
                             is_shooting |-> FALSE,
                             shoot_timer |-> 0],
                 !.num_projectiles = 0, !.projectiles = <<>>,
                 !.num_monsters = 0, !.monsters = <<>>,
                 !.score = 0,
                 !.platforms_landed = 0,
                 !.last_platform_landed = -1,
                 !.game_running = TRUE,
                 !.left_pressed = FALSE, !.right_pressed = FALSE,
                 !.shoot_pressed = FALSE, !.restart_pressed = FALSE,
                 !.landed = -1, !.landed_id = -1, !.last_id = -1, !.broken = {},
                 !.hits = {}]
        g2 == generate_platforms(g1, TRUE, s)
        start_platform == g2.platforms[1]
    IN  IF g2.num_platforms > 0
        THEN [g2 EXCEPT
                !.player.y = start_platform.y - g2.player.height - 40 * SC,
                !.player.x = start_platform.x
                             + TruncDiv(start_platform.width - g2.player.width, 2),
                !.camera_y = start_platform.y - WINDOW_HEIGHT * SC + 100 * SC]
        ELSE [g2 EXCEPT
                !.player.y = (WINDOW_HEIGHT - PLATFORM_HEIGHT - 50) * SC - PLAYER_HEIGHT * SC,
                !.camera_y = (WINDOW_HEIGHT - PLATFORM_HEIGHT - 50) * SC
                             - WINDOW_HEIGHT * SC + 100 * SC]

\* The zero-filled GameState that SDL_calloc returns, before init_game.
ZeroGame ==
    [player |-> [x |-> 0, y |-> 0, vx |-> 0, vy |-> 0, width |-> 0, height |-> 0,
                 on_ground |-> FALSE, facing_direction |-> 0,
                 is_shooting |-> FALSE, shoot_timer |-> 0],
     platforms |-> <<>>, num_platforms |-> 0,
     projectiles |-> <<>>, num_projectiles |-> 0,
     monsters |-> <<>>, num_monsters |-> 0,
     camera_y |-> 0, score |-> 0,
     platforms_landed |-> 0, last_platform_landed |-> 0,
     game_running |-> FALSE,
     left_pressed |-> FALSE, right_pressed |-> FALSE,
     shoot_pressed |-> FALSE, restart_pressed |-> FALSE,
     next_id |-> 0, landed |-> -1, landed_id |-> -1, last_id |-> -1, broken |-> {},
     hits |-> {}]

\* A variant of shoot_projectile that does not look at the cooldown.
shoot_projectile_no_cooldown(g) ==
    IF g.num_projectiles >= MAX_PROJECTILES
    THEN g
    ELSE [g EXCEPT
            !.projectiles = Append(g.projectiles,
                [x |-> g.player.x + TruncDiv(g.player.width, 2)
                       - (PROJECTILE_WIDTH \div 2) * SC,
                 y |-> g.player.y,
                 vy |-> PROJECTILE_SPEED * SC,
                 active |-> TRUE]),
            !.num_projectiles = g.num_projectiles + 1,
            !.player.is_shooting = TRUE,
            !.player.shoot_timer = 32 * SC]

\* A variant of shoot_projectile that does not look at the pool's capacity.
shoot_projectile_no_capacity(g) ==
    IF g.player.is_shooting
    THEN g
    ELSE [g EXCEPT
            !.projectiles = Append(g.projectiles,
                [x |-> g.player.x + TruncDiv(g.player.width, 2)
                       - (PROJECTILE_WIDTH \div 2) * SC,
                 y |-> g.player.y,
                 vy |-> PROJECTILE_SPEED * SC,
                 active |-> TRUE]),
            !.num_projectiles = g.num_projectiles + 1,
            !.player.is_shooting = TRUE,
            !.player.shoot_timer = 32 * SC]

\* ------------------------------------------------------------ shooting
\* shoot_projectile(game)
shoot_projectile(g) ==
    IF g.player.is_shooting \/ g.num_projectiles >= MAX_PROJECTILES
    THEN g
    ELSE [g EXCEPT
            !.projectiles = Append(g.projectiles,
                [x |-> g.player.x + TruncDiv(g.player.width, 2)
                       - (PROJECTILE_WIDTH \div 2) * SC,
                 y |-> g.player.y,
                 vy |-> PROJECTILE_SPEED * SC,
                 active |-> TRUE]),
            !.num_projectiles = g.num_projectiles + 1,
            !.player.is_shooting = TRUE,
            !.player.shoot_timer = 32 * SC]

\* A variant of Compact that keeps the active entries in reverse order.
RECURSIVE CompactReversed(_, _, _)
CompactReversed(arr, read_index, write_index) ==
    IF read_index <= Len(arr)
    THEN IF arr[read_index].active
         THEN Append(CompactReversed(arr, read_index + 1, write_index), arr[read_index])
         ELSE CompactReversed(arr, read_index + 1, write_index)
    ELSE << >>

\* Compaction of a pool prefix: the read_index / write_index loop.  An active
\* entry is copied down to write_index; the result is the first write_index
\* entries.
RECURSIVE Compact(_, _, _)
Compact(arr, read_index, write_index) ==
    IF read_index <= Len(arr)
    THEN IF arr[read_index].active
         THEN Compact([arr EXCEPT ![write_index] = arr[read_index]],
                      read_index + 1, write_index + 1)
         ELSE Compact(arr, read_index + 1, write_index)
    ELSE SubSeq(arr, 1, write_index - 1)

\* A variant of MoveProjectile that removes a projectile as soon as its bottom
\* edge is above the camera offset.
MoveProjectileCulledEarly(p, camera_y, time_diff) ==
    IF ~p.active THEN p
    ELSE LET y == p.y + TimesDt(p.vy, time_diff)
         IN  [p EXCEPT !.y = y,
                       !.active = ~(y + PROJECTILE_HEIGHT * SC < camera_y)]

\* The body of the projectile loop for one projectile.
MoveProjectile(p, camera_y, time_diff) ==
    IF ~p.active THEN p
    ELSE LET y == p.y + TimesDt(p.vy, time_diff)
         IN  [p EXCEPT !.y = y,
                       !.active = ~(y + PROJECTILE_HEIGHT * SC < camera_y - 100 * SC)]

\* The shoot timer of update_projectiles.
ShootTimer(player, time_diff) ==
    IF player.is_shooting
    THEN LET t == player.shoot_timer - TimesDt(SC, time_diff)
         IN  [player EXCEPT !.shoot_timer = t, !.is_shooting = ~(t <= 0)]
    ELSE player

\* update_projectiles(game, delta_time)
update_projectiles(g, time_diff) ==
    LET moved == [i \in 1..g.num_projectiles |->
                     MoveProjectile(g.projectiles[i], g.camera_y, time_diff)]
        kept == Compact(moved, 1, 1)
    IN  [g EXCEPT !.player = ShootTimer(g.player, time_diff),
                  !.projectiles = kept,
                  !.num_projectiles = Len(kept)]

\* A variant of is_monster_nearby that measures |dx| + |dy|.
is_monster_nearby_taxicab(g, x, y, min_distance) ==
    \E i \in 1..g.num_monsters :
        LET m == g.monsters[i]
            dx == IF m.x >= x THEN m.x - x ELSE x - m.x
            dy == IF m.y >= y THEN m.y - y ELSE y - m.y
        IN  m.active /\ dx + dy < min_distance

\* ------------------------------------------------------------ monsters
\* is_monster_nearby(game, x, y, min_distance): sqrtf(dx*dx + dy*dy) < min_distance,
\* compared as squares; a |dx| or |dy| of min_distance or more decides it alone.
is_monster_nearby(g, x, y, min_distance) ==
    \E i \in 1..g.num_monsters :
        LET m == g.monsters[i]
            dx == m.x - x
            dy == m.y - y
        IN  /\ m.active
            /\ dx < min_distance /\ -dx < min_distance
            /\ dy < min_distance /\ -dy < min_distance
            /\ dx * dx + dy * dy < min_distance * min_distance

\* spawn_monster(game, x, y); dir is rand() % 2
spawn_monster(g, x, y, dir) ==
    IF g.num_monsters >= MAX_MONSTERS THEN g
    ELSE IF is_monster_nearby(g, x, y, 150 * SC) THEN g
    ELSE [g EXCEPT
            !.monsters = Append(g.monsters,
                [x |-> x, y |-> y, vx |-> MONSTER_SPEED,
                 width |-> MONSTER_WIDTH * SC, height |-> MONSTER_HEIGHT * SC,
                 type |-> "MONSTER_BASIC", active |-> TRUE,
                 move_direction |-> dir * 2 - 1]),
            !.num_monsters = g.num_monsters + 1]

\* The body of the monster loop for one monster.
MoveMonster(m, camera_y, time_diff) ==
    IF ~m.active THEN m
    ELSE LET x == m.x + TimesDt(m.move_direction * m.vx * 60, time_diff)
             m1 == IF x <= 0
                   THEN [m EXCEPT !.x = 0, !.move_direction = 1]
                   ELSE IF x + m.width >= WINDOW_WIDTH * SC
                   THEN [m EXCEPT !.x = WINDOW_WIDTH * SC - m.width,
                                  !.move_direction = -1]
                   ELSE [m EXCEPT !.x = x]
         IN  [m1 EXCEPT !.active = ~(m.y > camera_y + (WINDOW_HEIGHT + 200) * SC)]

\* monsters_on_screen of update_monsters
MonstersOnScreen(g) ==
    Cardinality({i \in 1..g.num_monsters :
                    /\ g.monsters[i].active
                    /\ g.monsters[i].y >= g.camera_y - WINDOW_HEIGHT * SC
                    /\ g.monsters[i].y <= g.camera_y + WINDOW_HEIGHT * SC})

\* A variant of SpawnStep that spawns whether or not a monster is on screen.
SpawnStepCrowded(g, spawn) ==
    IF g.score >= MONSTER_SPAWN_SCORE_MIN /\ spawn.roll
    THEN spawn_monster(g, spawn.x * SC, g.camera_y - 100 * SC, spawn.dir)
    ELSE g

\* A variant of SpawnStep that spawns at any score.
SpawnStepAnyScore(g, spawn) ==
    IF MonstersOnScreen(g) = 0 /\ spawn.roll
    THEN spawn_monster(g, spawn.x * SC, g.camera_y - 100 * SC, spawn.dir)
    ELSE g

\* The spawn step of update_monsters.  spawn.roll is the outcome of
\* (float)rand() / RAND_MAX < spawn_chance (spawn_chance lies in [0.0005, 0.005],
\* so both outcomes occur), spawn.x is rand() % (WINDOW_WIDTH - MONSTER_WIDTH)
\* and spawn.dir is rand() % 2.
SpawnStep(g, spawn) ==
    IF g.score >= MONSTER_SPAWN_SCORE_MIN /\ MonstersOnScreen(g) = 0 /\ spawn.roll
    THEN spawn_monster(g, spawn.x * SC, g.camera_y - 100 * SC, spawn.dir)
    ELSE g

\* update_monsters(game, delta_time)
update_monsters(g, time_diff, spawn) ==
    LET moved == [i \in 1..g.num_monsters |->
                     MoveMonster(g.monsters[i], g.camera_y, time_diff)]
        kept == Compact(moved, 1, 1)
    IN  SpawnStep([g EXCEPT !.monsters = kept, !.num_monsters = Len(kept)], spawn)

\* A variant of check_platform_collision without the test of the direction
\* of the player's vertical move.
check_platform_collision_any_vy(player, platform) ==
    /\ platform.active
    /\ player.x < platform.x + platform.width
    /\ player.x + player.width > platform.x
    /\ player.y < platform.y + platform.height
    /\ player.y + player.height > platform.y
    /\ player.y < platform.y

\* ------------------------------------------------------------ collisions
\* check_platform_collision(player, platform)
check_platform_collision(player, platform) ==
    /\ platform.active
    /\ ~(player.vy <= 0)
    /\ player.x < platform.x + platform.width
    /\ player.x + player.width > platform.x
    /\ player.y < platform.y + platform.height
    /\ player.y + player.height > platform.y
    /\ player.y < platform.y

\* A variant of check_monster_collision that only sees a monster the player
\* reaches from above.
check_monster_collision_from_above(player, monster) ==
    /\ player.x < monster.x + monster.width
    /\ player.x + player.width > monster.x
    /\ player.y < monster.y
    /\ player.y + player.height > monster.y

\* check_monster_collision(player, monster)
check_monster_collision(player, monster) ==
    /\ player.x < monster.x + monster.width
    /\ player.x + player.width > monster.x
    /\ player.y < monster.y + monster.height
    /\ player.y + player.height > monster.y

\* check_projectile_monster_collision(projectile, monster)
check_projectile_monster_collision(projectile, monster) ==
    /\ projectile.x < monster.x + monster.width
    /\ projectile.x + PROJECTILE_WIDTH * SC > monster.x
    /\ projectile.y < monster.y + monster.height
    /\ projectile.y + PROJECTILE_HEIGHT * SC > monster.y

\* ------------------------------------------------------------ update_camera
\* A variant of update_camera that follows the player in both directions.
update_camera_follow(g) ==
    [g EXCEPT !.camera_y = g.player.y - (WINDOW_HEIGHT \div 2) * SC
                           + 50 * SC + PLATFORM_HEIGHT * SC]

\* A variant of update_camera that moves the camera half of the way to its
\* target.
update_camera_halfway(g) ==
    LET camera_offset == 50 * SC + PLATFORM_HEIGHT * SC
        target_camera_y == g.player.y - (WINDOW_HEIGHT \div 2) * SC + camera_offset
    IN  IF target_camera_y < g.camera_y
        THEN [g EXCEPT !.camera_y = TruncDiv(g.camera_y + target_camera_y, 2)]
        ELSE g

\* update_camera(game)
update_camera(g) ==
    LET camera_offset == 50 * SC + PLATFORM_HEIGHT * SC
        target_camera_y == g.player.y - (WINDOW_HEIGHT \div 2) * SC + camera_offset
    IN  IF target_camera_y < g.camera_y
        THEN [g EXCEPT !.camera_y = target_camera_y]
        ELSE g

\* A variant of MovePlayer whose wraps put the player just past the opposite
\* boundary, where the other wrap applies.
MovePlayerWrapsPastEdge(player, time_diff) ==
    LET vy == player.vy + TimesDt(GRAVITY, time_diff)
        x == player.x + TimesDt(player.vx, time_diff)
        y == player.y + TimesDt(vy, time_diff)
        wrapped == IF x + player.width < 0 THEN WINDOW_WIDTH * SC + 1
                   ELSE IF x > WINDOW_WIDTH * SC THEN -player.width - 1
                   ELSE x
    IN  [player EXCEPT !.vy = vy, !.x = wrapped, !.y = y]

\* A variant of MovePlayer without the horizontal wrap.
MovePlayerNoWrap(player, time_diff) ==
    LET vy == player.vy + TimesDt(GRAVITY, time_diff)
    IN  [player EXCEPT !.vy = vy,
                       !.x = player.x + TimesDt(player.vx, time_diff),
                       !.y = player.y + TimesDt(vy, time_diff)]

\* ------------------------------------------------------------ update_game
\* Gravity, position update and horizontal wrap of the player.
MovePlayer(player, time_diff) ==
    LET vy == player.vy + TimesDt(GRAVITY, time_diff)
        x == player.x + TimesDt(player.vx, time_diff)
        y == player.y + TimesDt(vy, time_diff)
        wrapped == IF x + player.width < 0 THEN WINDOW_WIDTH * SC
                   ELSE IF x > WINDOW_WIDTH * SC THEN -player.width
                   ELSE x
    IN  [player EXCEPT !.vy = vy, !.x = wrapped, !.y = y]

\* A variant of MovePlatform that stops a platform at a bound of the window
\* without turning it round.
MovePlatformNoTurn(platform, score, time_diff) ==
    IF platform.active /\ platform.type = "PLATFORM_MOVING"
    THEN LET actual_speed == TruncDiv(platform.move_speed * (100 + score), 100)
             x == platform.x + TimesDt(platform.move_direction * actual_speed, time_diff)
         IN  IF x <= 0
             THEN [platform EXCEPT !.x = 0]
             ELSE IF x + platform.width >= WINDOW_WIDTH * SC
             THEN [platform EXCEPT !.x = WINDOW_WIDTH * SC - platform.width]
             ELSE [platform EXCEPT !.x = x]
    ELSE platform

\* A variant of MovePlatform that does not look at the active flag.
MovePlatformAny(platform, score, time_diff) ==
    IF platform.type = "PLATFORM_MOVING"
    THEN LET actual_speed == TruncDiv(platform.move_speed * (100 + score), 100)
             x == platform.x + TimesDt(platform.move_direction * actual_speed, time_diff)
         IN  IF x <= 0
             THEN [platform EXCEPT !.x = 0, !.move_direction = 1]
             ELSE IF x + platform.width >= WINDOW_WIDTH * SC
             THEN [platform EXCEPT !.x = WINDOW_WIDTH * SC - platform.width,
                                   !.move_direction = -1]
             ELSE [platform EXCEPT !.x = x]
    ELSE platform

\* The body of the "update platforms" loop for one platform.
MovePlatform(platform, score, time_diff) ==
    IF platform.active /\ platform.type = "PLATFORM_MOVING"
    THEN LET actual_speed == TruncDiv(platform.move_speed * (100 + score), 100)
             x == platform.x + TimesDt(platform.move_direction * actual_speed, time_diff)
         IN  IF x <= 0
             THEN [platform EXCEPT !.x = 0, !.move_direction = 1]
             ELSE IF x + platform.width >= WINDOW_WIDTH * SC
             THEN [platform EXCEPT !.x = WINDOW_WIDTH * SC - platform.width,
                                   !.move_direction = -1]
             ELSE [platform EXCEPT !.x = x]
    ELSE platform

\* The body of the off-screen cleanup loop for one platform.
CleanupPlatform(platform, camera_y) ==
    IF platform.active /\ platform.y > camera_y + (WINDOW_HEIGHT + 200) * SC
    THEN [platform EXCEPT !.active = FALSE]
    ELSE platform

\* A variant of LandingSlot that takes the last colliding platform of the pool.
LandingSlotLast(g) ==
    LET hits == {i \in 0..(g.num_platforms - 1) :
                    check_platform_collision(g.player, g.platforms[i + 1])}
    IN  IF hits = {} THEN -1
        ELSE CHOOSE i \in hits : \A j \in hits : i >= j

\* The slot of the first platform, in pool order, that check_platform_collision
\* accepts (the loop leaves at its first match), or -1.
LandingSlot(g) ==
    LET hits == {i \in 0..(g.num_platforms - 1) :
                    check_platform_collision(g.player, g.platforms[i + 1])}
    IN  IF hits = {} THEN -1
        ELSE CHOOSE i \in hits : \A j \in hits : i <= j

\* A variant of JumpForce that gives every platform type the same force.
JumpForceFlat(type) ==
    JUMP_FORCE * SC

\* A variant of JumpForce without the higher jump from a moving platform.
JumpForceMovingPlain(type) ==
    IF type = "PLATFORM_SPRING" THEN SPRING_JUMP_FORCE * SC
    ELSE JUMP_FORCE * SC

\* jump_force by platform type; JUMP_FORCE * 1.1f for a moving platform.
JumpForce(type) ==
    IF type = "PLATFORM_MOVING" THEN TruncDiv(JUMP_FORCE * SC * 11, 10)
    ELSE IF type = "PLATFORM_SPRING" THEN SPRING_JUMP_FORCE * SC
    ELSE JUMP_FORCE * SC

\* A variant of CountsAsNew that counts every landing.
CountsAsNewAlways(i, last_platform_landed) ==
    TRUE

\* A variant of CountsAsNew that counts a landing only on a slot above the last one.
CountsAsNewUpward(i, last_platform_landed) ==
    i > last_platform_landed

\* "if (i != game->last_platform_landed)": whether the landing on slot i counts.
CountsAsNew(i, last_platform_landed) ==
    i # last_platform_landed

\* A variant of AfterLanding in which a breakable platform survives the landing.
AfterLandingIntact(platform) ==
    platform

\* "Handle breakable platforms": a breakable platform is deactivated by the
\* landing, any other platform is left as it is.
AfterLanding(platform) ==
    IF platform.type = "PLATFORM_BREAKABLE"
    THEN [platform EXCEPT !.active = FALSE]
    ELSE platform

\* The landing response on slot i.  landed, landed_id, last_id and broken are
\* ghost fields: the slot and platform of this tick's landing, the platform of
\* the latest landing of the session, and the ids of the breakable platforms
\* landed on so far in the session.
LandOn(g, i) ==
    LET platform == g.platforms[i + 1]
        breakable == platform.type = "PLATFORM_BREAKABLE"
        new == CountsAsNew(i, g.last_platform_landed)
    IN  [g EXCEPT
            !.player.y = platform.y - g.player.height,
            !.player.vy = JumpForce(platform.type),
            !.player.on_ground = TRUE,
            !.platforms[i + 1] = AfterLanding(platform),
            !.platforms_landed = IF new THEN g.platforms_landed + 1
                                 ELSE g.platforms_landed,
            !.last_platform_landed = IF new THEN i ELSE g.last_platform_landed,
            !.landed = i,
            !.landed_id = platform.id,
            !.last_id = platform.id,
            !.broken = IF breakable THEN g.broken \cup {platform.id} ELSE g.broken]

\* "Check platform collisions" of update_game.
Landing(g) ==
    LET g1 == [g EXCEPT !.player.on_ground = FALSE]
        i == LandingSlot(g1)
    IN  IF i = -1 THEN g1 ELSE LandOn(g1, i)

\* The inner loop of the projectile-monster collisions for one projectile:
\* the first active monster it collides with, in pool order, or 0.
FirstMonsterHit(projectile, monsters) ==
    LET hits == {j \in 1..Len(monsters) :
                    /\ monsters[j].active
                    /\ check_projectile_monster_collision(projectile, monsters[j])}
    IN  IF hits = {} THEN 0
        ELSE CHOOSE j \in hits : \A k \in hits : j <= k

\* A variant of ProjectileHits in which a monster that was hit stays active
\* for the projectiles that follow in the loop.
RECURSIVE ProjectileHitsMonsterStays(_, _, _)
ProjectileHitsMonsterStays(projectiles, monsters, i) ==
    IF i > Len(projectiles)
    THEN [projectiles |-> projectiles, monsters |-> monsters, hits |-> {}]
    ELSE LET j == IF projectiles[i].active
                  THEN FirstMonsterHit(projectiles[i], monsters)
                  ELSE 0
         IN  IF j = 0
             THEN ProjectileHitsMonsterStays(projectiles, monsters, i + 1)
             ELSE [ProjectileHitsMonsterStays([projectiles EXCEPT ![i].active = FALSE],
                                              monsters, i + 1)
                      EXCEPT !.hits = @ \cup {<<i, j>>},
                             !.monsters[j].active = FALSE]

\* The outer loop of the projectile-monster collisions, from projectile i on.
\* hits is a ghost: the pairs <<i, j>> of a projectile slot and the monster
\* slot that it hit (both numbered from 1).
RECURSIVE ProjectileHits(_, _, _)
ProjectileHits(projectiles, monsters, i) ==
    IF i > Len(projectiles)
    THEN [projectiles |-> projectiles, monsters |-> monsters, hits |-> {}]
    ELSE LET j == IF projectiles[i].active
                  THEN FirstMonsterHit(projectiles[i], monsters)
                  ELSE 0
         IN  IF j = 0
             THEN ProjectileHits(projectiles, monsters, i + 1)
             ELSE [ProjectileHits([projectiles EXCEPT ![i].active = FALSE],
                                  [monsters EXCEPT ![j].active = FALSE], i + 1)
                      EXCEPT !.hits = @ \cup {<<i, j>>}]

\* "Check projectile-monster collisions" of update_game.
ProjectileMonsterCollisions(g) ==
    LET r == ProjectileHits(g.projectiles, g.monsters, 1)
    IN  [g EXCEPT !.projectiles = r.projectiles, !.monsters = r.monsters,
                  !.hits = r.hits]

\* "Check player-monster collisions (game over)" of update_game.
PlayerMonsterCollision(g) ==
    IF \E i \in 1..g.num_monsters :
           /\ g.monsters[i].active
           /\ check_monster_collision(g.player, g.monsters[i])
    THEN [g EXCEPT !.game_running = FALSE]
    ELSE g

\* A variant of UpdateScore that stores the new score unconditionally.
UpdateScoreAlways(g) ==
    [g EXCEPT !.score = TruncDiv(-g.camera_y, 10 * SC)]

\* A variant of UpdateScore that counts the height in whole hundreds.
UpdateScoreCoarse(g) ==
    LET new_score == TruncDiv(-g.camera_y, 100 * SC) * 10
    IN  IF new_score > g.score THEN [g EXCEPT !.score = new_score] ELSE g

\* "Update score based on height": new_score = (int)(-camera_y / 10)
UpdateScore(g) ==
    LET new_score == TruncDiv(-g.camera_y, 10 * SC)
    IN  IF new_score > g.score THEN [g EXCEPT !.score = new_score] ELSE g

\* A variant of TouchesBottom with a margin of 100 below the screen.
TouchesBottomFar(player, camera_y) ==
    player.y > camera_y + (WINDOW_HEIGHT + 100) * SC

\* The condition of the final game-over test of update_game.
TouchesBottom(player, camera_y) ==
    player.y + player.height >= camera_y + WINDOW_HEIGHT * SC

\* "Game over if player touches the bottom of the screen"
FallCheck(g) ==
    IF TouchesBottom(g.player, g.camera_y)
    THEN [g EXCEPT !.game_running = FALSE]
    ELSE g

\* The steps of update_game before the generation step: the player's move,
\* the moving platforms and the off-screen cleanup.
BeforeGeneration(g, time_diff) ==
    LET g1 == [g EXCEPT !.player = MovePlayer(g.player, time_diff)]
        g2 == [g1 EXCEPT !.platforms =
                  [i \in 1..g1.num_platforms |->
                      MovePlatform(g1.platforms[i], g1.score, time_diff)]]
    IN  [g2 EXCEPT !.platforms =
            [i \in 1..g2.num_platforms |->
                CleanupPlatform(g2.platforms[i], g2.camera_y)]]

\* A variant of update_game that tests the player against the monsters before
\* the projectiles.
update_game_player_first(g, time_diff, s, spawn) ==
    IF ~g.game_running THEN g
    ELSE
    LET g3 == BeforeGeneration(g, time_diff)
        g4 == generate_platforms(g3, FALSE, s)
        g5 == Landing(g4)
        g6 == update_camera(g5)
        g7 == update_projectiles(g6, time_diff)
        g8 == update_monsters(g7, time_diff, spawn)
        g9 == PlayerMonsterCollision(g8)
        g10 == ProjectileMonsterCollisions(g9)
        g11 == UpdateScore(g10)
    IN  FallCheck(g11)

\* update_game(game, delta_time)
update_game(g, time_diff, s, spawn) ==
    IF ~g.game_running THEN g
    ELSE
    LET g3 == BeforeGeneration(g, time_diff)
        g4 == generate_platforms(g3, FALSE, s)
        g5 == Landing(g4)
        g6 == update_camera(g5)
        g7 == update_projectiles(g6, time_diff)
        g8 == update_monsters(g7, time_diff, spawn)
        g9 == ProjectileMonsterCollisions(g8)
        g10 == PlayerMonsterCollision(g9)
        g11 == UpdateScore(g10)
    IN  FallCheck(g11)

\* ------------------------------------------------------------ handle_input
\* target_vx from the pressed flags (the right key overrides the left one).
TargetVx(g) ==
    IF g.right_pressed THEN PLAYER_SPEED * SC
    ELSE IF g.left_pressed THEN -PLAYER_SPEED * SC
    ELSE 0

\* The steering part of handle_input: facing direction, then acceleration
\* toward target_vx, or friction when there is no input.
Steer(g, time_diff) ==
    LET target_vx == TargetVx(g)
        facing == IF g.right_pressed THEN 1
                  ELSE IF g.left_pressed THEN -1
                  ELSE g.player.facing_direction
        vx == IF target_vx # 0
              THEN g.player.vx
                   + TruncDiv((target_vx - g.player.vx) * PLAYER_ACCELERATION * time_diff,
                              SC * 16)
              ELSE TruncDiv(g.player.vx * PLAYER_FRICTION, SC)
    IN  [g EXCEPT !.player.vx = vx, !.player.facing_direction = facing]

\* A variant of RestartHonored that honours the restart key in any state.
RestartAlways(g) ==
    g.restart_pressed

\* "if (game->restart_pressed && !game->game_running)"
RestartHonored(g) ==
    g.restart_pressed /\ ~g.game_running

\* A variant of handle_input that shoots whether or not the game is running.
handle_input_shoots_always(g, time_diff, s) ==
    LET g1 == Steer(g, time_diff)
        g2 == IF g1.shoot_pressed THEN shoot_projectile(g1) ELSE g1
    IN  IF RestartHonored(g2) THEN init_game(g2, s) ELSE g2

\* handle_input(game, keyboard_state, delta_time); s supplies the draws of the
\* initial generation that a restart runs.
handle_input(g, time_diff, s) ==
    LET g1 == Steer(g, time_diff)
        g2 == IF g1.shoot_pressed /\ g1.game_running THEN shoot_projectile(g1) ELSE g1
    IN  IF RestartHonored(g2) THEN init_game(g2, s) ELSE g2

\* ------------------------------------------------------------ the clock
\* A Uint32 as its two 16-bit halves.
U32(hi, lo) ==
    [hi |-> hi, lo |-> lo]

\* (a + n) modulo 2^32, for 0 <= n < 2^16
AddU32(a, n) ==
    LET lo == a.lo + n
    IN  U32((a.hi + lo \div 65536) % 65536, lo % 65536)

\* A variant of SubU32 that does not borrow from the upper half.
SubU32NoBorrow(a, b) ==
    U32((a.hi - b.hi) % 65536, (a.lo - b.lo) % 65536)

\* (a - b) modulo 2^32: "Uint32 time_diff = current_time - game->last_time"
SubU32(a, b) ==
    LET borrow == IF a.lo < b.lo THEN 1 ELSE 0
    IN  U32((a.hi - b.hi - borrow) % 65536, (a.lo - b.lo) % 65536)

\* "if (time_diff > 100) time_diff = 100", as a number of milliseconds
ClampDiff(d) ==
    IF d.hi > 0 \/ d.lo > 100 THEN 100 ELSE d.lo

\* ------------------------------------------------------------ state
\* game       the GameState record (with the ghost fields next_id, landed,
\*            landed_id, broken and hits; hits is the set of pairs <<i, j>>
\*            of a projectile slot and the monster slot that it hit in the
\*            projectile-monster loop of the frame, slots numbered from 1)
\* last_time  game->last_time
\* frame      ghost: what the last step did.  ticks counts the frames of the
\*            session, inited says that init_game ran in the step, after_init
\*            is the state in which the last init_game left the game, ran says
\*            that the body of update_game ran, camera_before and score_before
\*            are camera_y and score as update_game found them (and likewise
\*            landed_before, last_id_before and broken_before for
\*            platforms_landed, last_id and broken, and x_before for
\*            player.x), time_diff is the clamped time of the frame (0 after
\*            a key event), events counts the key events of the run.
\*            last_before and next_id_before are last_platform_landed and
\*            the count of platforms created as update_game found them;
\*            slots_before and inactive_before are num_platforms and the
\*            set of inactive slots (numbered from 1) as the generation step
\*            of the tick found them, and player_moved is the player as that
\*            step found it.
\*            since_shot is the simulated time (delta_time
\*            times SC, summed over the ticks that ran) since the latest
\*            projectile creation of the run, -1 before the first; gap is
\*            since_shot as a creation of this frame found it, else -1;
\*            shot_in_session says that the session has created a projectile
\*            and gap_in_session that gap is between two creations of one
\*            session.  hostiles_before is the number of active monsters
\*            that the frame found, projectiles_before and monsters_before
\*            the projectile pool and the monster pool as update_game found
\*            them.
VARIABLES game, last_time, frame

vars == <<game, last_time, frame>>

\* ------------------------------------------------------------ bounds
\* Frames of a run, and key events of a run, in each specification.
MaxTicks == 6
MaxEvents == 1
MaxClimbTicks == 58
MaxClimbEvents == 1
MaxSteerTicks == 36
MaxSteerEvents == 1
MaxFireTicks == 24
MaxFireEvents == 3
MaxVolleyTicks == 72
MaxVolleyEvents == 1
MaxHuntTicks == 58
MaxHuntEvents == 1
MaxStallTicks == 4

MaxStallEvents == 1

MaxRoamTicks == 82

MaxRoamEvents == 1

\* ------------------------------------------------------------ inputs
\* Streams of draws.  x: SDL_rand(WINDOW_WIDTH - PLATFORM_WIDTH) in 0..654,
\* type: SDL_rand(100), dir: SDL_rand(2), speed: SDL_rand(4),
\* gap: SDL_rand(PLATFORM_SPACING_MAX - PLATFORM_SPACING_MIN) in 0..39.
Ladder ==
    [x |-> <<328>>, type |-> <<0>>, dir |-> <<0>>, speed |-> <<0>>, gap |-> <<0>>]

Mixed ==
    [x |-> <<328, 0, 654>>, type |-> <<90, 84, 95, 85, 89, 94, 99>>,
     dir |-> <<0, 1>>, speed |-> <<0, 3>>, gap |-> <<39, 0>>]

Aside ==
    [x |-> <<654, 0>>, type |-> <<85, 0>>, dir |-> <<1, 0>>, speed |-> <<3>>,
     gap |-> <<0, 39>>]

Brittle ==
    [x |-> <<0, 328>>, type |-> <<90>>, dir |-> <<0>>, speed |-> <<0>>, gap |-> <<39>>]

LeftColumn ==
    [x |-> <<0>>, type |-> <<0>>, dir |-> <<0>>, speed |-> <<0>>, gap |-> <<0>>]

Springs ==
    [x |-> <<328>>, type |-> <<95>>, dir |-> <<0>>, speed |-> <<0>>, gap |-> <<0>>]

Movers ==
    [x |-> <<328>>, type |-> <<85>>, dir |-> <<0>>, speed |-> <<0>>, gap |-> <<0>>]

Drift ==
    [x |-> <<2, 328, 328, 653, 328, 328>>, type |-> <<85, 0, 0>>, dir |-> <<1, 0>>,
     speed |-> <<3>>, gap |-> <<0>>]

RightColumn ==
    [x |-> <<654>>, type |-> <<0>>, dir |-> <<0>>, speed |-> <<0>>, gap |-> <<0>>]

Streams == {Mixed, Aside}

\* The draws of a generation after session start: of a restart, or of the
\* continuous generation once the camera has risen.
LaterStreams == {Mixed}

ClimbInitStreams == {Ladder, Brittle}

ClimbStreams == {Ladder}

SteerStreams == {LeftColumn, RightColumn}

SteerInitStreams == SteerStreams \cup {Springs, Movers}

SteerLaterStreams == {Springs}

\* Outcomes of the rand() calls of the spawn step.
NoSpawn == [roll |-> FALSE, x |-> 0, dir |-> 0]

Spawns == {NoSpawn, [roll |-> TRUE, x |-> 250, dir |-> 1]}

\* The spawn step draws nothing while score < MONSTER_SPAWN_SCORE_MIN, as in
\* every session of a few frames.
EarlySpawns == {NoSpawn}

\* Milliseconds between two frames.
Elapsed == {16, 100}

ClimbElapsed == {80}

SteerElapsed == {32}

Keys == {"LEFT", "RIGHT", "SHOOT", "RESTART"}

ClimbKeys == {"SHOOT", "RESTART"}

SteerKeys == {"LEFT", "RIGHT"}

FireElapsed == {80}

FireKeys == {"SHOOT", "RESTART"}

FireStreams == {Aside}

VolleyKeys == {"SHOOT"}

\* Frame times with a frame that takes no time and with stalls.
StallElapsed == {0, 60, 100, 101, 250}

StallKeys == {"LEFT"}

VolleyInitStreams == ClimbStreams \cup {Drift}

\* Runs in which every spawn roll fails (a roll succeeds with a chance of at
\* most 0.005).
VolleySpawns == {NoSpawn}

\* The slots of a pool prefix, numbered from 1, that hold an inactive platform.
InactiveSlots(plats) ==
    {i \in 1..Len(plats) : ~plats[i].active}

\* ------------------------------------------------------------ steps
\* SDL_AppInit: init_game on the zero-filled state, then last_time.
InitOf(streams) ==
    /\ \E s \in streams : game = init_game(ZeroGame, s)
    /\ last_time = U32(65535, 65535 - 150)
    /\ frame = [ticks |-> 0, events |-> 0, inited |-> TRUE, after_init |-> game, ran |-> FALSE,
                camera_before |-> game.camera_y, score_before |-> game.score,
                landed_before |-> game.platforms_landed,
                last_id_before |-> game.last_id,
                broken_before |-> game.broken,
                x_before |-> game.player.x, time_diff |-> 0,
                last_before |-> game.last_platform_landed,
                next_id_before |-> game.next_id,
                slots_before |-> game.num_platforms,
                inactive_before |-> {},
                player_moved |-> game.player,
                since_shot |-> -1, gap |-> -1,
                shot_in_session |-> FALSE, gap_in_session |-> FALSE,
                hostiles_before |-> 0, projectiles_before |-> << >>,
                monsters_before |-> << >>]

\* SDL_AppEvent: SDL_EVENT_KEY_DOWN / SDL_EVENT_KEY_UP of a game key.
SDL_AppEvent(key, down) ==
    /\ game' = CASE key = "LEFT" -> [game EXCEPT !.left_pressed = down]
                 [] key = "RIGHT" -> [game EXCEPT !.right_pressed = down]
                 [] key = "SHOOT" -> [game EXCEPT !.shoot_pressed = down]
                 [] key = "RESTART" -> [game EXCEPT !.restart_pressed = down]
    /\ frame' = [frame EXCEPT !.events = frame.events + 1,
                              !.inited = FALSE, !.ran = FALSE,
                              !.camera_before = game.camera_y,
                              !.score_before = game.score,
                              !.landed_before = game.platforms_landed,
                              !.last_id_before = game.last_id,
                              !.broken_before = game.broken,
                              !.x_before = game.player.x,
                              !.time_diff = 0]
    /\ UNCHANGED last_time

\* SDL_AppIterate: one frame.  current_time is (Uint32)SDL_GetTicks().  g1 is
\* the game after handle_input, g3 after the moves of update_game, g2 after
\* update_game.
SDL_AppIterate(current_time, s, spawn) ==
    LET time_diff == ClampDiff(SubU32(current_time, last_time))
        restart == RestartHonored(game)
        g0 == [game EXCEPT !.landed = -1, !.landed_id = -1, !.hits = {}]
    IN
    \E g1 \in {handle_input(g0, time_diff, s)} :
    \E g3 \in {IF g1.game_running THEN BeforeGeneration(g1, time_diff) ELSE g1} :
    LET g2 == update_game(g1, time_diff, s, spawn)
        created == g1.num_projectiles > g0.num_projectiles
        elapsed == IF g1.game_running THEN TimesDt(SC, time_diff) ELSE 0
    IN  /\ game' = g2
        /\ last_time' = current_time
        /\ frame' = [ticks |-> frame.ticks + 1,
                     events |-> frame.events,
                     inited |-> restart,
                     after_init |-> IF restart THEN g1 ELSE frame.after_init,
                     ran |-> g1.game_running,
                     camera_before |-> g1.camera_y,
                     score_before |-> g1.score,
                     landed_before |-> g1.platforms_landed,
                     last_id_before |-> g1.last_id,
                     broken_before |-> g1.broken,
                     x_before |-> g1.player.x, time_diff |-> time_diff,
                     last_before |-> g1.last_platform_landed,
                     next_id_before |-> g1.next_id,
                     slots_before |-> g3.num_platforms,
                     inactive_before |-> InactiveSlots(g3.platforms),
                     player_moved |-> g3.player,
                     since_shot |-> IF created THEN elapsed
                                    ELSE IF frame.since_shot = -1 THEN -1
                                    ELSE frame.since_shot + elapsed,
                     gap |-> IF created THEN frame.since_shot ELSE -1,
                     shot_in_session |-> created \/ (frame.shot_in_session /\ ~restart),
                     gap_in_session |-> created /\ frame.shot_in_session,
                     hostiles_before |-> Cardinality({i \in 1..game.num_monsters :
                                                         game.monsters[i].active}),
                     projectiles_before |-> g1.projectiles,
                     monsters_before |-> g1.monsters]

\* Whether the key's pressed flag is set.
Pressed(key) ==
    CASE key = "LEFT" -> game.left_pressed
      [] key = "RIGHT" -> game.right_pressed
      [] key = "SHOOT" -> game.shoot_pressed
      [] key = "RESTART" -> game.restart_pressed

\* The callbacks that SDL may run next: a key event that changes a pressed flag
\* (at most max_events in a run), or a frame (at most max_ticks in a run).
NextOf(keys, elapsed, streams, spawns, max_ticks, max_events) ==
    \/ \E key \in keys, down \in BOOLEAN :
          /\ frame.events < max_events
          /\ Pressed(key) # down
          /\ SDL_AppEvent(key, down)
    \/ \E e \in elapsed, s \in streams, spawn \in spawns :
          /\ frame.ticks < max_ticks
          /\ SDL_AppIterate(AddU32(last_time, e), s, spawn)

Init == InitOf(Streams)

Next == NextOf(Keys, Elapsed, LaterStreams, EarlySpawns, MaxTicks, MaxEvents)

Spec == Init /\ [][Next]_vars

InitClimb == InitOf(ClimbInitStreams)

NextClimb == NextOf(ClimbKeys, ClimbElapsed, ClimbStreams, Spawns, MaxClimbTicks, MaxClimbEvents)

SpecClimb == InitClimb /\ [][NextClimb]_vars

InitSteer == InitOf(SteerInitStreams)

NextSteer == NextOf(SteerKeys, SteerElapsed, SteerLaterStreams, EarlySpawns, MaxSteerTicks, MaxSteerEvents)

SpecSteer == InitSteer /\ [][NextSteer]_vars

InitFire == InitOf(FireStreams)

NextFire == NextOf(FireKeys, FireElapsed, FireStreams, EarlySpawns, MaxFireTicks, MaxFireEvents)

SpecFire == InitFire /\ [][NextFire]_vars

InitVolley == InitOf(VolleyInitStreams)

NextVolley == NextOf(VolleyKeys, ClimbElapsed, ClimbStreams, VolleySpawns, MaxVolleyTicks, MaxVolleyEvents)

SpecVolley == InitVolley /\ [][NextVolley]_vars

\* The climb with the shoot key and monster spawns.
InitHunt == InitOf(ClimbStreams)

NextHunt == NextOf(VolleyKeys, ClimbElapsed, ClimbStreams, Spawns, MaxHuntTicks, MaxHuntEvents)

SpecHunt == InitHunt /\ [][NextHunt]_vars

RoamStreams == {Ladder}

RoamKeys == {"RESTART"}

\* A spawn at the left edge, moving left: the monster paces the window while
\* the player climbs past it.
RoamSpawns == {NoSpawn, [roll |-> TRUE, x |-> 0, dir |-> 0]}

\* A climb long enough for a monster to fall out of the band below the camera.
InitRoam == InitOf(RoamStreams)

NextRoam == NextOf(RoamKeys, ClimbElapsed, RoamStreams, RoamSpawns, MaxRoamTicks, MaxRoamEvents)

SpecRoam == InitRoam /\ [][NextRoam]_vars

\* A few frames of any length, across the wrap of the 32-bit tick counter.
InitStall == InitOf(ClimbStreams)

NextStall == NextOf(StallKeys, StallElapsed, ClimbStreams, VolleySpawns, MaxStallTicks, MaxStallEvents)

SpecStall == InitStall /\ [][NextStall]_vars

\* ================================================================ properties
\* Whether some active monster of the pool overlaps the player's box.
HostileOverlap ==
    \E i \in 1..game.num_monsters :
        /\ game.monsters[i].active
        /\ game.player.x < game.monsters[i].x + game.monsters[i].width
        /\ game.player.x + game.player.width > game.monsters[i].x
        /\ game.player.y < game.monsters[i].y + game.monsters[i].height
        /\ game.player.y + game.player.height > game.monsters[i].y

\* The bottom edge of the visible window, in world coordinates.
ScreenBottom ==
    game.camera_y + WINDOW_HEIGHT * SC

\* C1: over every tick of update_game that runs its body, camera_y after the
\* tick is less than or equal to camera_y before it.
C1_CameraNeverMovesDown ==
    frame.ran => game.camera_y <= frame.camera_before

\* A tick has just moved the camera up.
C1_CameraMovedUp ==
    frame.ran /\ game.camera_y < frame.camera_before

\* C2: over every tick of update_game that runs its body, score after the tick
\* is greater than or equal to score before it.
C2_ScoreNeverDecreases ==
    frame.ran => game.score >= frame.score_before

\* A tick has just raised the score.
C2_ScoreRaised ==
    frame.ran /\ game.score > frame.score_before

\* C3: after a running tick in which the player's bottom edge touches or has
\* crossed the bottom of the window while its top edge has not passed it, and
\* no active monster overlaps the player, game_running is still true.
C3_PartCrossingKeepsRunning ==
    ( /\ frame.ran
      /\ game.player.y + game.player.height >= ScreenBottom
      /\ ~(game.player.y > ScreenBottom)
      /\ ~HostileOverlap )
    => game.game_running

\* C4: when a tick ends with the player's top edge below the bottom of the
\* window (player.y > camera_y + WINDOW_HEIGHT), game_running is false.
C4_WhollyBelowEndsGame ==
    (frame.ran /\ game.player.y > ScreenBottom) => ~game.game_running

\* A tick has just ended with the whole player below the window.
C4_FellOut ==
    frame.ran /\ game.player.y > ScreenBottom /\ ~game.game_running

\* C5: when the player's box overlaps an active monster after a tick's
\* movement, game_running is false at the end of that tick.
C5_HostileOverlapEndsGame ==
    HostileOverlap => ~game.game_running

\* A tick has just ended with the player inside an active monster, the player
\* still being wholly on the screen.
C5_Caught ==
    /\ frame.ran
    /\ HostileOverlap
    /\ game.player.y + game.player.height < ScreenBottom
    /\ ~game.game_running

\* The simulation state that a frame in the terminal state is said to keep.
SimState ==
    <<game.player.x, game.player.y, game.player.vx, game.player.vy,
      game.player.shoot_timer, game.player.is_shooting,
      game.platforms, game.num_platforms,
      game.projectiles, game.num_projectiles,
      game.monsters, game.num_monsters,
      game.camera_y, game.score,
      game.platforms_landed, game.last_platform_landed>>

\* C6: a frame (handle_input followed by update_game) that starts with
\* game_running false and performs no restart leaves the simulation state
\* unchanged: the player's position and velocity, the three pools and their
\* counts, camera_y, score, platforms_landed and the shoot cooldown.
C6_TerminalFrameChangesNothing ==
    [][ (~game.game_running /\ ~RestartHonored(game)) => SimState' = SimState ]_vars

\* The result of one frame on g: handle_input, then update_game.
FrameOn(g, time_diff, s, spawn) ==
    update_game(handle_input([g EXCEPT !.landed = -1, !.landed_id = -1, !.hits = {}],
                             time_diff, s),
                time_diff, s, spawn)

\* A frame that starts in a running session with the restart key held ends as
\* the same frame does without the key.
RestartIgnoredWhileRunning ==
    (game.game_running /\ game.restart_pressed /\ frame'.ticks # frame.ticks)
    => /\ ~frame'.inited
       /\ \E s \in Streams, spawn \in Spawns :
             game' = [FrameOn([game EXCEPT !.restart_pressed = FALSE],
                              ClampDiff(SubU32(last_time', last_time)), s, spawn)
                         EXCEPT !.restart_pressed = TRUE]

\* C7: a restart key processed while game_running is true changes nothing
\* (init_game is not invoked); game_running goes from false to true only in a
\* frame that finds the restart key held in the terminal state, where it runs
\* init_game; without that the terminal state persists.
C7_RestartOnlyFromTerminal ==
    [][ /\ RestartIgnoredWhileRunning
        /\ frame'.inited => (game.restart_pressed /\ ~game.game_running)
        /\ (~game.game_running /\ game'.game_running)
              => (game.restart_pressed /\ frame'.inited)
        /\ (~game.game_running /\ ~game.restart_pressed) => ~game'.game_running
      ]_vars

\* A frame has just run its tick in a running session with the restart key held.
C7_RestartHeldWhileRunning ==
    /\ frame.ticks > 0
    /\ frame.ran
    /\ ~frame.inited
    /\ game.restart_pressed

\* The state that init_game is said to leave.
InitialState(g) ==
    /\ g.num_platforms >= 1
    /\ g.platforms[1].active
    /\ g.platforms[1].type = "PLATFORM_NORMAL"
    /\ g.platforms[1].x = (WINDOW_WIDTH \div 2 - PLATFORM_WIDTH \div 2) * SC
    /\ g.platforms[1].y = (WINDOW_HEIGHT - PLATFORM_HEIGHT - 50) * SC
    /\ 2 * g.player.x + g.player.width = 2 * g.platforms[1].x + g.platforms[1].width
    /\ g.player.y + g.player.height <= g.platforms[1].y
    /\ g.player.vx = 0
    /\ g.player.vy = 0
    /\ g.score = 0
    /\ g.platforms_landed = 0
    /\ g.last_platform_landed = -1
    /\ g.game_running
    /\ g.num_projectiles = 0
    /\ g.projectiles = <<>>
    /\ g.num_monsters = 0
    /\ g.monsters = <<>>

\* C8: immediately after init_game, at startup and at every restart, slot 0
\* holds an active normal platform at x = WINDOW_WIDTH/2 - PLATFORM_WIDTH/2,
\* y = WINDOW_HEIGHT - PLATFORM_HEIGHT - 50, the player is centred above it
\* with zero velocity, score and platforms_landed are 0, last_platform_landed
\* is -1, game_running is true, and the projectile and monster pools are empty.
C8_InitGameState ==
    InitialState(frame.after_init)

\* A restart has just re-initialised the session.
C8_Restarted ==
    /\ frame.inited
    /\ frame.ticks > 0
    /\ InitialState(frame.after_init)

\* The platform in the slot of this tick's landing.
LandedPlatform ==
    game.platforms[game.landed + 1]

\* C9: a landing on an active breakable platform leaves that platform inactive
\* at the end of the same tick, and no landing is ever on a platform that an
\* earlier landing broke: a breakable platform takes at most one landing.
C9_BreakableLandsOnce ==
    (frame.ran /\ game.landed # -1)
    => /\ game.landed_id \notin frame.broken_before
       /\ LandedPlatform.type = "PLATFORM_BREAKABLE" => ~LandedPlatform.active

\* A tick has just landed the player on a breakable platform.
C9_LandedOnBreakable ==
    /\ frame.ran
    /\ game.landed # -1
    /\ LandedPlatform.id = game.landed_id
    /\ LandedPlatform.type = "PLATFORM_BREAKABLE"

C11_RepeatedLandingCountsOnce ==
    (frame.ran /\ (game.landed = -1 \/ game.landed_id = frame.last_id_before))
    => /\ game.platforms_landed = frame.landed_before
       /\ game.last_platform_landed = IF game.landed = -1
                                      THEN game.last_platform_landed
                                      ELSE game.landed

\* A tick has just landed the player again on the platform of the preceding
\* landing, which had been counted.
C11_LandedAgain ==
    /\ frame.ran
    /\ game.landed # -1
    /\ game.landed_id = frame.last_id_before
    /\ game.platforms_landed >= 1

\* The player's horizontal position after the position update of the tick,
\* before the wrap: the wrap leaves the velocity as it is.
UnwrappedX ==
    frame.x_before + TimesDt(game.player.vx, frame.time_diff)

\* C12 (as the code has it): when the right edge has passed the left boundary
\* (x + width < 0) the player reappears with its left edge at the right
\* boundary (x = WINDOW_WIDTH), and when the left edge has passed the right
\* boundary (x > WINDOW_WIDTH) it reappears with its right edge at the left
\* boundary (x = -width); otherwise x is the moved position.
C12_WrapBeyondOppositeEdge ==
    frame.ran
    => game.player.x =
          IF UnwrappedX + game.player.width < 0 THEN WINDOW_WIDTH * SC
          ELSE IF UnwrappedX > WINDOW_WIDTH * SC THEN -game.player.width
          ELSE UnwrappedX

\* C12 (as stated): past the left boundary the player reappears with its right
\* edge at the right boundary (x = WINDOW_WIDTH - width), past the right
\* boundary with its left edge at the left boundary (x = 0).
C12_WrapInsideOppositeEdge ==
    frame.ran
    => /\ UnwrappedX + game.player.width < 0
             => game.player.x = WINDOW_WIDTH * SC - game.player.width
       /\ UnwrappedX > WINDOW_WIDTH * SC => game.player.x = 0

\* A tick has just wrapped the player from the left boundary to the right one.
C12_WrappedLeft ==
    /\ frame.ran
    /\ UnwrappedX + game.player.width < 0
    /\ game.player.x = WINDOW_WIDTH * SC

\* The last step was a frame.
Stepped ==
    frame.time_diff > 0

\* handle_input on the game as it is, for the frame times and the restart
\* draws of SpecFire.
AfterInput ==
    {handle_input(game, e, s) : e \in FireElapsed, s \in FireStreams}

\* C13 (within a session): handle_input on a game with the cooldown active
\* creates no projectile; on a game with the shoot key held, the session
\* running, the cooldown expired and the projectile pool not full it appends
\* exactly one active projectile and starts a cooldown of 32; and between two
\* creations of one session at least 32 units of simulated time elapse.
C13_CooldownSpacesShots ==
    /\ \A a \in AfterInput :
          /\ game.player.is_shooting
                => /\ a.num_projectiles <= game.num_projectiles
                   /\ game.game_running
                         => /\ a.projectiles = game.projectiles
                            /\ a.player.shoot_timer = game.player.shoot_timer
          /\ ( /\ game.shoot_pressed /\ game.game_running
               /\ ~game.player.is_shooting
               /\ game.num_projectiles < MAX_PROJECTILES )
                => /\ a.num_projectiles = game.num_projectiles + 1
                   /\ SubSeq(a.projectiles, 1, game.num_projectiles) = game.projectiles
                   /\ a.projectiles[a.num_projectiles].active
                   /\ a.player.is_shooting
                   /\ a.player.shoot_timer = 32 * SC
    /\ (Stepped /\ frame.gap_in_session) => frame.gap >= 32 * SC

\* C13 (as stated): between any two projectile creations at least 32 units of
\* simulated time elapse.
C13_AnyTwoShotsSpaced ==
    (Stepped /\ frame.gap # -1) => frame.gap >= 32 * SC

\* A frame has just created the second projectile of a session, 35 units of
\* simulated time after the first, the shoot key being held and the cooldown
\* running again.
C13_ShotAgain ==
    /\ Stepped
    /\ frame.gap_in_session
    /\ frame.gap = 35 * SC
    /\ game.shoot_pressed
    /\ game.player.is_shooting

\* The pools of g are within their capacities (a pool is the sequence of its
\* slots below num_*, so a write at an index of the capacity or more would
\* make it longer than the capacity).
WithinCapacity(g) ==
    /\ g.num_platforms = Len(g.platforms)
    /\ g.num_platforms <= MAX_PLATFORMS
    /\ g.num_projectiles = Len(g.projectiles)
    /\ g.num_projectiles <= MAX_PROJECTILES
    /\ g.num_monsters = Len(g.monsters)
    /\ g.num_monsters <= MAX_MONSTERS

\* C14: in every state the three pools are within their capacities, and a
\* creation on a full pool changes nothing: handle_input on a running game
\* with the shoot key held and the projectile pool full does what steering
\* alone does, spawn_monster on a full monster pool returns the game as it is,
\* and so does the continuous generation on a full platform pool.
C14_PoolsWithinCapacity ==
    /\ WithinCapacity(game)
    /\ ( /\ game.shoot_pressed /\ game.game_running
         /\ game.num_projectiles >= MAX_PROJECTILES )
          => \A e \in ClimbElapsed, s \in ClimbStreams :
                handle_input(game, e, s) = Steer(game, e)
    /\ game.num_monsters >= MAX_MONSTERS
          => \A spawn \in Spawns :
                spawn_monster(game, spawn.x * SC, game.camera_y - 100 * SC, spawn.dir) = game
    /\ game.num_platforms >= MAX_PLATFORMS
          => \A s \in ClimbStreams : generate_platforms(game, FALSE, s) = game

\* A tick has just ended with the shoot key held, the cooldown expired and the
\* projectile pool full, so that the next frame tries a shot on the full pool.
C14_ShotOnFullPool ==
    /\ frame.ran
    /\ game.shoot_pressed /\ game.game_running
    /\ ~game.player.is_shooting
    /\ game.num_projectiles = MAX_PROJECTILES
    /\ \A i \in 1..MAX_PROJECTILES : game.projectiles[i].active

\* C15: at the end of every tick every entry of the projectile pool below
\* num_projectiles is active and every entry of the monster pool below
\* num_monsters is active.
C15_DenseLivePrefix ==
    frame.ran
    => /\ \A i \in 1..game.num_projectiles : game.projectiles[i].active
       /\ \A i \in 1..game.num_monsters : game.monsters[i].active

\* The platform pool as the generation step of the tick left it: after that
\* step the tick changes the pool only by deactivating the platform of the
\* landing, which was active when the landing found it.
GeneratedPool ==
    IF game.landed # -1
    THEN [game.platforms EXCEPT ![game.landed + 1].active = TRUE]
    ELSE game.platforms

\* The line that the frontier is to reach: one largest spacing step below the
\* target height of the generation step, for the camera as the tick found it.
FrontierLine ==
    frame.camera_before
    - (WINDOW_HEIGHT + 200) * SC + (PLATFORM_SPACING_MAX + 30) * SC

\* C16: immediately after the generation step of every running tick some
\* active platform has y <= camera_y - WINDOW_HEIGHT - 200
\* + PLATFORM_SPACING_MAX + 30, or all MAX_PLATFORMS slots hold an active
\* platform.
C16_FrontierAheadOfCamera ==
    frame.ran
    => \/ \E i \in 1..Len(GeneratedPool) :
             /\ GeneratedPool[i].active
             /\ GeneratedPool[i].y <= FrontierLine
       \/ /\ Len(GeneratedPool) = MAX_PLATFORMS
          /\ \A i \in 1..MAX_PLATFORMS : GeneratedPool[i].active

\* The slots written by the generation step of the tick: the ids of the
\* session's platforms are given in creation order, and the step gives the
\* ids from the count that update_game found on.
CreatedSlots ==
    {i \in 1..Len(GeneratedPool) : GeneratedPool[i].id >= frame.next_id_before}

\* The generation step of a tick has just created a platform, the camera
\* having risen above its initial height.
C16_GeneratedAhead ==
    /\ frame.ran
    /\ CreatedSlots # {}
    /\ frame.camera_before < frame.after_init.camera_y
    /\ \E i \in 1..Len(GeneratedPool) :
          /\ GeneratedPool[i].active
          /\ GeneratedPool[i].y <= FrontierLine

\* C17: the generation step of a tick writes no slot that held an active
\* platform; it writes the inactive slots below num_platforms in index order,
\* lowest first, before it appends a slot; and every platform it creates
\* either fills such a slot or makes num_platforms one larger.
C17_ReusesLowestInactiveSlot ==
    frame.ran
    => LET Q == GeneratedPool
           inactive == frame.inactive_before
           appended == (frame.slots_before + 1)..Len(Q)
       IN  /\ Len(Q) >= frame.slots_before
           /\ \A i \in (1..frame.slots_before) \ inactive :
                 Q[i].active /\ i \notin CreatedSlots
           /\ \A i \in inactive : i \notin CreatedSlots => ~Q[i].active
           /\ CreatedSlots \subseteq inactive \cup appended
           /\ appended \subseteq CreatedSlots
           /\ \A i \in CreatedSlots : Q[i].active
           /\ \A i \in inactive, j \in inactive \cup appended :
                 (i < j /\ j \in CreatedSlots)
                 => (i \in CreatedSlots /\ Q[i].id < Q[j].id)
           /\ \A i, j \in appended : i < j => Q[i].id < Q[j].id
           /\ Cardinality(CreatedSlots) = game.next_id - frame.next_id_before

\* The generation step of a tick has just written a platform into an inactive
\* slot while a second inactive slot, at a higher index, stayed as it was.
C17_ReusedSlot ==
    /\ frame.ran
    /\ \E i, j \in frame.inactive_before :
          /\ i < j
          /\ i \in CreatedSlots /\ j \notin CreatedSlots

\* The generation step of a tick has just appended a slot.
C17_Grew ==
    /\ frame.ran
    /\ Len(GeneratedPool) = frame.slots_before + 1

\* The slots of the pool that hold a platform whose predecessor in creation
\* order is also in the pool, with the slot of the predecessor.
Successors ==
    {pair \in (1..game.num_platforms) \X (1..game.num_platforms) :
        game.platforms[pair[2]].id = game.platforms[pair[1]].id + 1}

\* C18: every platform of the pool lies above the platform created before it
\* by PLATFORM_SPACING_MIN + r + a with 0 <= r < PLATFORM_SPACING_MAX
\* - PLATFORM_SPACING_MIN and a the height term at the earlier platform.
C18_GapHasHeightTerm ==
    \A pair \in Successors :
        LET prev == game.platforms[pair[1]]
            p == game.platforms[pair[2]]
            a == AdditionalSpacing(prev.y)
        IN  /\ prev.y - p.y >= (PLATFORM_SPACING_MIN + a) * SC
            /\ prev.y - p.y < (PLATFORM_SPACING_MAX + a) * SC
\* Offsets (in pixels) of the places where a spawn is tried next to a monster:
\* at the monster, and just inside and just outside the circle of radius 150
\* along an axis, along the diagonal and along the 90-120-150 triangle.
NearOffsets ==
    {<<0, 0>>, <<149, 0>>, <<0, -149>>, <<106, 106>>, <<-89, 120>>, <<89, -120>>}

FarOffsets ==
    {<<150, 0>>, <<0, -150>>, <<107, 106>>, <<-90, 120>>, <<90, -120>>}

\* The active monsters of the pool closer than 150 to (x, y), by their
\* distance in pixels squared (coordinates are multiples of SC here).
ActiveWithin150(x, y) ==
    {i \in 1..game.num_monsters :
        LET dx == (game.monsters[i].x - x) \div SC
            dy == (game.monsters[i].y - y) \div SC
        IN  /\ game.monsters[i].active
            /\ dx * dx + dy * dy < 150 * 150}

\* The places around the active monsters of the pool at the given offsets.
PlacesAt(offsets) ==
    {<<(game.monsters[i].x \div SC + o[1]) * SC, (game.monsters[i].y \div SC + o[2]) * SC>> :
        i \in {j \in 1..game.num_monsters : game.monsters[j].active}, o \in offsets}

\* C19: spawn_monster at a place closer than 150 to an active monster returns
\* the game as it is, and a monster that spawn_monster creates is at 150 or
\* more from every active monster: at the places of FarOffsets that are far
\* from all monsters it appends one monster at that place.
C19_NoSpawnNearHostile ==
    \A place \in PlacesAt(NearOffsets \cup FarOffsets), dir \in {0, 1} :
        LET after == spawn_monster(game, place[1], place[2], dir)
        IN  IF ActiveWithin150(place[1], place[2]) # {}
            THEN after = game
            ELSE /\ after.num_monsters = game.num_monsters + 1
                 /\ SubSeq(after.monsters, 1, game.num_monsters) = game.monsters
                 /\ after.monsters[after.num_monsters].x = place[1]
                 /\ after.monsters[after.num_monsters].y = place[2]
                 /\ after.monsters[after.num_monsters].active

\* A tick has just ended with an active monster in the pool; around it
\* spawn_monster refuses at distance sqrt(89^2 + 120^2) and creates at
\* distance 150.
C19_SpawnTriedNearHostile ==
    /\ frame.ran
    /\ \E i \in 1..game.num_monsters :
          LET m == game.monsters[i]
              x == (m.x \div SC) * SC
              y == (m.y \div SC) * SC
          IN  /\ m.active
              /\ spawn_monster(game, x + 89 * SC, y - 120 * SC, 1) = game
              /\ spawn_monster(game, x + 90 * SC, y - 120 * SC, 1).num_monsters
                    = game.num_monsters + 1

\* The game as the landing step of the tick found it: the player and the pool
\* as the generation step left them, and the landing counters of the session
\* as update_game found them.
BeforeLanding ==
    [game EXCEPT !.player = frame.player_moved,
                 !.platforms = GeneratedPool,
                 !.platforms_landed = frame.landed_before,
                 !.last_platform_landed = frame.last_before,
                 !.landed = -1, !.landed_id = -1,
                 !.last_id = frame.last_id_before,
                 !.broken = frame.broken_before]

\* BeforeLanding with the platform in slot i made a platform of the given type.
WithType(i, type) ==
    [BeforeLanding EXCEPT !.platforms[i + 1].type = type]

\* C20: when a tick lands the player on a spring platform, the landing gives
\* the player an upward velocity (vy < 0), and the landing of the same player
\* on the same platform made a normal platform gives an upward velocity that
\* is strictly smaller in magnitude, everything else being the same.
C20_SpringJumpsHigher ==
    ( /\ frame.ran
      /\ game.landed # -1
      /\ game.platforms[game.landed + 1].type = "PLATFORM_SPRING" )
    => LET spring == Landing(BeforeLanding)
           normal == Landing(WithType(game.landed, "PLATFORM_NORMAL"))
       IN  /\ spring.player.vy = game.player.vy
           /\ spring.landed = game.landed
           /\ spring.platforms = game.platforms
           /\ normal.landed = game.landed
           /\ normal.player.vy < 0
           /\ spring.player.vy < normal.player.vy
           /\ [spring.player EXCEPT !.vy = 0] = [normal.player EXCEPT !.vy = 0]

\* A tick has just landed the player on a spring platform.
C20_LandedOnSpring ==
    /\ frame.ran
    /\ game.landed # -1
    /\ game.platforms[game.landed + 1].type = "PLATFORM_SPRING"
    /\ game.player.vy = SPRING_JUMP_FORCE * SC

\* Players placed on the platform so that an active platform would take the
\* landing: falling, overlapping the platform, top edge above its top edge.
\* The first stands on its middle, the others reach it by one pixel.
PlayersOn(platform) ==
    {[game.player EXCEPT !.x = platform.x + dx, !.y = platform.y - dy, !.vy = vy] :
        dx \in {0, SC - game.player.width, platform.width - SC},
        dy \in {SC, game.player.height - SC},
        vy \in {1, 18 * SC}}

\* C21: a platform of the pool whose active flag is false takes no landing,
\* wherever the player is and however it moves, and the moving-platform update
\* leaves it as it is.
C21_InactivePlatformInert ==
    \A i \in 1..game.num_platforms :
        ~game.platforms[i].active
        => /\ \A player \in PlayersOn(game.platforms[i]) \cup {game.player} :
                 /\ ~check_platform_collision(player, game.platforms[i])
                 /\ LandingSlot([game EXCEPT !.player = player]) # i - 1
           /\ \A e \in ClimbElapsed \cup Elapsed :
                 MovePlatform(game.platforms[i], game.score, e) = game.platforms[i]
           /\ (frame.ran /\ game.landed = i - 1)
                 => game.platforms[i].type = "PLATFORM_BREAKABLE"

\* A tick has just ended with an inactive moving platform in the pool that has
\* a speed and is off the window's edges, and on which the players of
\* PlayersOn would land if it were active.
C21_InactiveMovingPlatform ==
    /\ frame.ran
    /\ \E i \in 1..game.num_platforms :
          LET p == game.platforms[i]
          IN  /\ ~p.active
              /\ p.type = "PLATFORM_MOVING"
              /\ p.move_speed > 0
              /\ MovePlatform([p EXCEPT !.active = TRUE], game.score, 80).x # p.x
              /\ \A player \in PlayersOn(p) :
                    check_platform_collision(player, [p EXCEPT !.active = TRUE])

\* The active monsters of the pool whose box overlaps the player's box.
Catching ==
    {k \in 1..game.num_monsters :
        /\ game.monsters[k].active
        /\ check_monster_collision(game.player, game.monsters[k])}

\* C22: a monster that a projectile hit in a tick is inactive when the same
\* tick tests the player against the monsters: the tick ends the session only
\* if a monster that is still active overlaps the player or the player
\* touches the bottom of the screen, not because of the monster that was hit.
C22_HitMonsterCannotCatch ==
    frame.ran
    => /\ \A h \in game.hits : ~game.monsters[h[2]].active
       /\ ~game.game_running
             => (Catching # {} \/ TouchesBottom(game.player, game.camera_y))

\* A tick has just ended in which a projectile hit a monster whose box
\* overlaps the player's box, and the session goes on.
C22_HitWhileOverlapping ==
    /\ frame.ran
    /\ game.game_running
    /\ \E h \in game.hits :
          check_monster_collision(game.player, game.monsters[h[2]])

\* The slots (numbered from 0) of the platforms of pool g.platforms on which
\* the player g.player qualifies for a landing.
Qualifying(g) ==
    {i \in 0..(g.num_platforms - 1) :
        check_platform_collision(g.player, g.platforms[i + 1])}

\* What the claim says of the landing step that takes g to h: the platform
\* that lands is the one of the lowest qualifying slot, no other platform is
\* changed, and platforms_landed grows by at most 1.
OneLanding(g, h) ==
    LET q == Qualifying(g)
    IN  /\ h.landed = IF q = {} THEN -1 ELSE CHOOSE i \in q : \A j \in q : i <= j
        /\ \A i \in 0..(g.num_platforms - 1) :
              i # h.landed => h.platforms[i + 1] = g.platforms[i + 1]
        /\ h.platforms_landed - g.platforms_landed \in {0, 1}
        /\ h.num_platforms = g.num_platforms

\* BeforeLanding with a breakable copy of the platform of slot i in slot j.
WithTwin(i, j) ==
    [BeforeLanding EXCEPT
        !.platforms[j + 1] = [BeforeLanding.platforms[i + 1] EXCEPT
                                 !.type = "PLATFORM_BREAKABLE",
                                 !.id = BeforeLanding.platforms[j + 1].id]]

\* C23: the landing step of a tick gives a landing response to at most one
\* platform, the one of the lowest qualifying slot in pool order, leaves every
\* other platform as it was and adds at most 1 to platforms_landed.  This
\* also holds when a second platform qualifies in the same tick: with a
\* breakable copy of the landed platform put into any other slot, the lower
\* of the two slots takes the landing and the other platform stays intact.
C23_OneLandingPerTick ==
    frame.ran
    => /\ Landing(BeforeLanding).landed = game.landed
       /\ OneLanding(BeforeLanding, game)
       /\ game.landed # -1
             => \A j \in 0..(game.num_platforms - 1) \ {game.landed} :
                   LET g == WithTwin(game.landed, j)
                       h == Landing(g)
                   IN  /\ {game.landed, j} \subseteq Qualifying(g)
                       /\ OneLanding(g, h)
                       /\ h.landed = IF j < game.landed THEN j ELSE game.landed

\* A tick has just landed the player on a platform that is neither in the
\* first nor in the last slot of the pool, and the landing was counted.
C23_LandedInsidePool ==
    /\ frame.ran
    /\ game.landed > 0
    /\ game.landed < game.num_platforms - 1
    /\ game.platforms_landed = frame.landed_before + 1

\* Whether the boxes of the player and of the platform overlap.
BoxesOverlap(player, platform) ==
    /\ player.x < platform.x + platform.width
    /\ player.x + player.width > platform.x
    /\ player.y < platform.y + platform.height
    /\ player.y + player.height > platform.y

\* Whether the platform of slot i (numbered from 0) was active when the
\* landing step of the tick ran: it was active when the generation step
\* began, or the generation step created it.
ActiveAtLanding(i) ==
    i + 1 \notin frame.inactive_before \/ i + 1 \in CreatedSlots

\* C24: a tick gives a landing response only if the player, as gravity and
\* the position update of the tick left it, moves downward (vy > 0), its box
\* overlaps the box of the platform, which is active, and its top edge is
\* above the platform's top edge; a player with vy <= 0 lands on no platform
\* of the pool.
C24_LandsOnlyFalling ==
    frame.ran
    => /\ game.landed # -1
             => /\ frame.player_moved.vy > 0
                /\ ActiveAtLanding(game.landed)
                /\ BoxesOverlap(frame.player_moved, GeneratedPool[game.landed + 1])
                /\ frame.player_moved.y < GeneratedPool[game.landed + 1].y
       /\ frame.player_moved.vy <= 0
             => /\ game.landed = -1
                /\ ~game.player.on_ground
                /\ game.player = [frame.player_moved EXCEPT !.on_ground = FALSE]

\* A tick has just given a landing response to a platform that was there
\* when the tick began.
C24_Landed ==
    /\ frame.ran
    /\ game.landed # -1
    /\ game.landed + 1 \notin CreatedSlots
    /\ game.player.vy < 0

\* C25: a tick with a landing response leaves the player standing on the
\* platform (player.y = platform.y - player.height) with on_ground set and
\* with vy = JUMP_FORCE on a normal or breakable platform, 1.1 * JUMP_FORCE
\* on a moving platform and SPRING_JUMP_FORCE on a spring platform; a tick
\* without a landing response leaves on_ground false.
C25_LandingResponse ==
    frame.ran
    => IF game.landed # -1
       THEN LET platform == game.platforms[game.landed + 1]
            IN  /\ game.player.y = platform.y - game.player.height
                /\ game.player.on_ground
                /\ game.player.x = frame.player_moved.x
                /\ game.player.vy =
                      CASE platform.type = "PLATFORM_NORMAL" -> JUMP_FORCE * SC
                        [] platform.type = "PLATFORM_BREAKABLE" -> JUMP_FORCE * SC
                        [] platform.type = "PLATFORM_MOVING" -> (JUMP_FORCE * SC * 11) \div 10
                        [] platform.type = "PLATFORM_SPRING" -> SPRING_JUMP_FORCE * SC
       ELSE /\ ~game.player.on_ground
            /\ game.player.y = frame.player_moved.y
            /\ game.player.vy = frame.player_moved.vy

\* A tick has just landed the player on a moving platform.
C25_LandedOnMoving ==
    /\ frame.ran
    /\ game.landed # -1
    /\ game.platforms[game.landed + 1].type = "PLATFORM_MOVING"

\* The slots (numbered from 1) of the inactive projectiles and of the inactive
\* monsters of the pools.  Both pools are compacted in a tick before its
\* projectile-monster loop, and a monster is spawned active, so at the end of
\* a tick these are the entries that the loop deactivated.
SpentProjectiles ==
    {i \in 1..game.num_projectiles : ~game.projectiles[i].active}

StruckMonsters ==
    {j \in 1..game.num_monsters : ~game.monsters[j].active}

\* C26: in the projectile-monster loop of a tick no projectile hits two
\* monsters and no monster is hit by two projectiles; every hit deactivates
\* its projectile and its monster, so that the loop deactivates as many
\* projectiles as monsters.
C26_HitsPairUp ==
    frame.ran
    => /\ \A g, h \in game.hits : (g[1] = h[1]) <=> (g[2] = h[2])
       /\ SpentProjectiles = {h[1] : h \in game.hits}
       /\ StruckMonsters = {h[2] : h \in game.hits}
       /\ Cardinality(SpentProjectiles) = Cardinality(StruckMonsters)

\* A tick has just ended in which a projectile hit a monster while a second
\* projectile, later in the pool and still active, overlaps the same monster.
C26_TwoProjectilesOnOneMonster ==
    /\ frame.ran
    /\ \E h \in game.hits :
          \E i \in 1..game.num_projectiles :
             /\ i > h[1]
             /\ game.projectiles[i].active
             /\ check_projectile_monster_collision(game.projectiles[i],
                                                   game.monsters[h[2]])

\* The active entries of a pool, in pool order and as they are.
RECURSIVE ActiveEntries(_)
ActiveEntries(arr) ==
    IF arr = << >> THEN << >>
    ELSE IF Head(arr).active THEN <<Head(arr)>> \o ActiveEntries(Tail(arr))
    ELSE ActiveEntries(Tail(arr))

\* The number of active entries of a pool.
ActiveCount(arr) ==
    Cardinality({i \in 1..Len(arr) : arr[i].active})

\* The projectile pool and the monster pool as the loops of update_projectiles
\* and update_monsters leave them for the compaction, on a frame of e ms.
MovedProjectiles(e) ==
    [i \in 1..game.num_projectiles |->
        MoveProjectile(game.projectiles[i], game.camera_y, e)]

MovedMonsters(e) ==
    [i \in 1..game.num_monsters |->
        MoveMonster(game.monsters[i], game.camera_y, e)]

\* C27: the compaction of update_projectiles and of update_monsters is a
\* stable filter.  Whatever the pools of the game are when it runs, it leaves
\* as live prefix exactly the entries that were active, in their order and
\* with their field values, and the live count is the number of those
\* entries.
C27_CompactionIsStableFilter ==
    \A e \in Elapsed \cup ClimbElapsed :
        LET p == update_projectiles(game, e)
            m == update_monsters(game, e, NoSpawn)
        IN  /\ p.projectiles = ActiveEntries(MovedProjectiles(e))
            /\ p.num_projectiles = ActiveCount(MovedProjectiles(e))
            /\ Len(p.projectiles) = p.num_projectiles
            /\ m.monsters = ActiveEntries(MovedMonsters(e))
            /\ m.num_monsters = ActiveCount(MovedMonsters(e))
            /\ Len(m.monsters) = m.num_monsters

\* The compaction of the next tick finds an inactive projectile in front of
\* two active ones, and an inactive monster.
C27_HolesInPools ==
    /\ \E i, j, k \in 1..game.num_projectiles :
          /\ i < j /\ j < k
          /\ ~game.projectiles[i].active
          /\ game.projectiles[j].active
          /\ game.projectiles[k].active
    /\ \E i \in 1..game.num_monsters : ~game.monsters[i].active
    /\ game.game_running

\* The active moving platforms of the pool that the platform loop of the
\* tick has moved: those that the generation step of the tick did not create.
MovedPlatforms ==
    {i \in 1..game.num_platforms :
        /\ game.platforms[i].active
        /\ game.platforms[i].type = "PLATFORM_MOVING"
        /\ game.platforms[i].id < frame.next_id_before}

\* Where the moving-platform update of a frame of e ms takes platform p before
\* the bounds are applied.
UnclampedX(p, e) ==
    p.x + TimesDt(p.move_direction * TruncDiv(p.move_speed * (100 + game.score), 100), e)

\* C28: every active platform lies within the window, 0 <= x <=
\* WINDOW_WIDTH - width, and the direction of a moving platform is -1 or +1.
\* A moving platform that reaches the left bound is put at x = 0 with
\* direction +1, one that reaches the right bound at x = WINDOW_WIDTH - width
\* with direction -1; any other keeps its direction.
C28_PlatformsWithinWindow ==
    /\ \A i \in 1..game.num_platforms :
          LET p == game.platforms[i]
          IN  /\ p.active => (0 <= p.x /\ p.x <= WINDOW_WIDTH * SC - p.width)
              /\ p.type = "PLATFORM_MOVING" => p.move_direction \in {-1, 1}
              /\ (p.active /\ p.type = "PLATFORM_MOVING")
                    => \A e \in Elapsed \cup ClimbElapsed \cup SteerElapsed :
                          LET q == MovePlatform(p, game.score, e)
                          IN  IF UnclampedX(p, e) <= 0
                              THEN q.x = 0 /\ q.move_direction = 1
                              ELSE IF UnclampedX(p, e) + p.width >= WINDOW_WIDTH * SC
                              THEN /\ q.x = WINDOW_WIDTH * SC - p.width
                                   /\ q.move_direction = -1
                              ELSE /\ q.x = UnclampedX(p, e)
                                   /\ q.move_direction = p.move_direction
    /\ frame.ran
          => \A i \in MovedPlatforms :
                LET p == game.platforms[i]
                IN  /\ p.x = 0 => p.move_direction = 1
                    /\ p.x = WINDOW_WIDTH * SC - p.width => p.move_direction = -1

\* A tick has just turned moving platforms round at both bounds of the
\* window: one is at x = 0 with direction +1, another at
\* x = WINDOW_WIDTH - width with direction -1.
C28_TurnedAtBothBounds ==
    /\ frame.ran
    /\ frame.time_diff > 0
    /\ \E i, j \in MovedPlatforms :
          /\ game.platforms[i].x = 0
          /\ game.platforms[i].move_direction = 1
          /\ game.platforms[j].x = WINDOW_WIDTH * SC - game.platforms[j].width
          /\ game.platforms[j].move_direction = -1

\* The type that the claim gives to the draw d.
TypeOfDraw(d) ==
    CASE d < 85 -> "PLATFORM_NORMAL"
      [] d >= 85 /\ d < 90 -> "PLATFORM_MOVING"
      [] d >= 90 /\ d < 95 -> "PLATFORM_BREAKABLE"
      [] d >= 95 -> "PLATFORM_SPRING"

\* What the claim says of the direction and speed of a platform.
DirectionAndSpeedFit(p) ==
    IF p.type = "PLATFORM_MOVING"
    THEN /\ p.move_direction \in {-1, 1}
         /\ p.move_speed >= SC \div 2
         /\ p.move_speed <= SC
    ELSE /\ p.move_direction = 0
         /\ p.move_speed = 0

\* Scores at which the speed of a new moving platform is below, within and
\* above the range [0.5, 1.0] before it is clamped.
ProbeScores ==
    {game.score, 360, 560, 1200}

\* The first and the last draw of each range of the type chain.
RangeEnds ==
    {0, 84, 85, 89, 90, 94, 95, 99}

\* C29: the type of a generated platform is Normal for a draw d < 85, Moving
\* for 85 <= d < 90, Breakable for 90 <= d < 95 and Spring for d >= 95, d
\* being the draw SDL_rand(100) of its creation; a moving platform has
\* direction -1 or +1 and a speed within [0.5, 1.0], any other platform
\* direction 0 and speed 0.  This holds of every platform of the pool that the
\* generation created, of the type chain at every draw, and of the platform
\* that the generation makes of the draws at the ends of the ranges at the
\* probe scores.
C29_TypeByDraw ==
    /\ \A i \in 1..game.num_platforms :
          LET p == game.platforms[i]
          IN  p.rand_type # -1
              => /\ p.rand_type \in 0..99
                 /\ p.type = TypeOfDraw(p.rand_type)
                 /\ DirectionAndSpeedFit(p)
    /\ \A d \in 0..99 : PlatformTypeOf(d) = TypeOfDraw(d)
    /\ \A d \in RangeEnds, score \in ProbeScores :
          LET s == [x |-> <<d>>, type |-> <<d>>, dir |-> <<d % 2>>,
                    speed |-> <<d % 4>>, gap |-> <<0>>]
              p == NewPlatform(0, 0, s, score, 0)
          IN  /\ p.type = TypeOfDraw(d)
              /\ DirectionAndSpeedFit(p)

\* The pool holds generated platforms of all four types, drawn at the ends
\* of the ranges: draws 84, 85, 89, 90, 94 and 95 have all occurred.
C29_AllTypesDrawn ==
    /\ frame.ran
    /\ \A d \in RangeEnds \ {0, 99} :
          \E i \in 1..game.num_platforms : game.platforms[i].rand_type = d
    /\ \A type \in {"PLATFORM_NORMAL", "PLATFORM_MOVING", "PLATFORM_BREAKABLE",
                    "PLATFORM_SPRING"} :
          \E i \in 1..game.num_platforms :
             game.platforms[i].rand_type # -1 /\ game.platforms[i].type = type

\* C30: whenever score is below MONSTER_SPAWN_SCORE_MIN, the monster pool
\* holds no active monster.  This includes the state in which a restart has
\* just left the game.
C30_NoHostileBelowSpawnScore ==
    game.score < MONSTER_SPAWN_SCORE_MIN
    => /\ \A i \in 1..game.num_monsters : ~game.monsters[i].active
       /\ \A i \in 1..Len(game.monsters) : ~game.monsters[i].active

\* A frame has just restarted the game from a session that had an active
\* monster: the score is 0 again.
C30_RestartedAmongHostiles ==
    /\ frame.inited
    /\ frame.ticks > 0
    /\ frame.hostiles_before > 0
    /\ frame.score_before = 0
    /\ game.score < MONSTER_SPAWN_SCORE_MIN

\* The projectiles of the pool that update_game found active, each moved up
\* by PROJECTILE_SPEED times the delta_time of the frame, x unchanged.
FlownProjectiles ==
    LET old == ActiveEntries(frame.projectiles_before)
    IN  [i \in 1..Len(old) |->
            [old[i] EXCEPT !.y = @ - TruncDiv(-PROJECTILE_SPEED * SC * frame.time_diff, 16)]]

\* Whether the bottom edge of projectile p is more than 100 above the camera
\* offset.
BeyondTop(p) ==
    p.y + PROJECTILE_HEIGHT * SC < game.camera_y - 100 * SC

\* Those of FlownProjectiles that are not beyond the top, in pool order.
RECURSIVE Within(_)
Within(arr) ==
    IF arr = << >> THEN << >>
    ELSE IF BeyondTop(Head(arr)) THEN Within(Tail(arr))
    ELSE <<Head(arr)>> \o Within(Tail(arr))

\* C31: over a running tick of a session, the projectiles in the pool are
\* those that the tick found active, each with its x and with its y less by
\* the magnitude of PROJECTILE_SPEED times delta_time, except those whose
\* bottom edge is now more than 100 above the camera offset; the only other
\* projectiles that leave are those that a hit of an earlier tick had made
\* inactive, and the only ones made inactive are those that hit a monster.
\* A frame after the end of the session leaves the pool as it is.
C31_ProjectileLifeCycle ==
    /\ frame.ran
          => /\ game.num_projectiles = Len(Within(FlownProjectiles))
             /\ [i \in 1..game.num_projectiles |->
                    [game.projectiles[i] EXCEPT !.active = TRUE]]
                   = Within(FlownProjectiles)
             /\ SpentProjectiles = {h[1] : h \in game.hits}
    /\ (frame.ticks > 0 /\ frame.time_diff > 0 /\ ~frame.ran /\ ~frame.inited)
          => game.projectiles = frame.projectiles_before

\* A tick has just moved two projectiles, removed one of them beyond the top
\* and kept the other.
C31_LeftAtTop ==
    /\ frame.ran
    /\ frame.time_diff > 0
    /\ \E i \in 1..Len(FlownProjectiles) : BeyondTop(FlownProjectiles[i])
    /\ game.num_projectiles > 0

\* C32: the time that a frame feeds to handle_input and update_game is the
\* time since the last frame, taken modulo 2^32 and clamped to at most
\* 100 ms, so that delta_time (the time over 16) lies in [0, 6.25]; this
\* also holds of the frame in which the 32-bit tick counter wraps around.
C32_ElapsedClamped ==
    [][ frame'.ticks = frame.ticks + 1
        => /\ \E e \in StallElapsed :
                 /\ last_time' = AddU32(last_time, e)
                 /\ frame'.time_diff = IF e > 100 THEN 100 ELSE e
           /\ frame'.time_diff \in 0..100
           /\ TimesDt(SC, frame'.time_diff) \in 0..(6 * SC + SC \div 4) ]_vars

\* The tick counter has just wrapped around in a frame of less than 100 ms:
\* the counter is below the frame's time.
C32_CounterWrapped ==
    /\ frame.ticks > 0
    /\ frame.time_diff > 0
    /\ frame.time_diff < 100
    /\ last_time.hi = 0
    /\ last_time.lo < frame.time_diff

\* (int)(-camera_y / 10) for the camera offset of the game.
ScoreOfCamera ==
    TruncDiv(-game.camera_y, 10 * SC)

\* C33: score is max(0, trunc(-camera_y / 10)) at the end of every tick and
\* right after init_game, and score differs from trunc(-camera_y / 10) only
\* while the camera offset is still positive, where score is 0.
C33_ScoreFollowsCamera ==
    /\ game.score = IF ScoreOfCamera > 0 THEN ScoreOfCamera ELSE 0
    /\ game.score # ScoreOfCamera => (game.camera_y > 0 /\ game.score = 0)

\* A frame has just restarted the game from a session that had reached the
\* score at which monsters appear, and run the first tick of the new session:
\* the camera offset is positive again, the recomputed score is negative and
\* score is 0.
C33_GuardHoldsAfterRestart ==
    /\ frame.inited
    /\ frame.ran
    /\ frame.ticks > 0
    /\ frame.hostiles_before > 0
    /\ ScoreOfCamera < 0
    /\ game.score = 0

\* The camera offset at which the camera tracks the player:
\* player.y - WINDOW_HEIGHT / 2 + 50 + PLATFORM_HEIGHT.
TrackingLine ==
    game.player.y - (WINDOW_HEIGHT \div 2) * SC + (50 + PLATFORM_HEIGHT) * SC

\* C34: at the end of every tick and right after init_game the camera offset
\* is at or above the tracking line of the player (camera_y <= player.y -
\* WINDOW_HEIGHT / 2 + 50 + PLATFORM_HEIGHT), and while game_running holds
\* the player's bottom edge is strictly above the bottom of the viewport.
C34_PlayerBetweenLineAndBottom ==
    /\ game.camera_y <= TrackingLine
    /\ game.game_running
          => game.player.y + game.player.height < game.camera_y + WINDOW_HEIGHT * SC

\* A tick has just moved the camera up to the tracking line of the player.
C34_CameraOnTrackingLine ==
    /\ frame.ran
    /\ game.game_running
    /\ game.camera_y < frame.camera_before
    /\ game.camera_y = TrackingLine

\* C35: any two platforms of the pool that the generator created one after
\* the other are at least PLATFORM_SPACING_MIN apart in y, and the
\* height-dependent additional spacing at the lower one is not negative.
C35_GapsAtLeastSpacingMin ==
    \A i, j \in 1..game.num_platforms :
        game.platforms[j].id = game.platforms[i].id + 1
        => /\ game.platforms[i].y - game.platforms[j].y >= PLATFORM_SPACING_MIN * SC
           /\ AdditionalSpacing(game.platforms[i].y) >= 0

\* Whether y lies in the band [camera_y - WINDOW_HEIGHT, camera_y + WINDOW_HEIGHT].
InBand(y, camera_y) ==
    /\ y >= camera_y - WINDOW_HEIGHT * SC
    /\ y <= camera_y + WINDOW_HEIGHT * SC

\* The slots of the monster pool whose monster the frame that has just run
\* did not find in the pool: the monsters it spawned.  A spawned monster
\* differs in y from every active monster that update_game found.
Newcomers ==
    IF frame.ticks > 0 /\ frame.ran
    THEN {i \in 1..Len(game.monsters) :
             \A j \in 1..Len(frame.monsters_before) :
                frame.monsters_before[j].active
                => frame.monsters_before[j].y # game.monsters[i].y}
    ELSE {}

\* The frame that has just run appended a monster to the pool.
SpawnedThisTick ==
    Newcomers # {}

\* C36: after every frame at most one active monster lies in the band around
\* the camera.  A frame adds at most one monster; it adds one only at
\* y = camera_y - 100 and only when no other monster of the pool lies in the
\* band; and an active monster that the frame found below the band is not in
\* the band afterwards.
C36_OneHostileInBand ==
    /\ game.num_monsters = Len(game.monsters)
    /\ MonstersOnScreen(game) <= 1
    /\ Cardinality(Newcomers) <= 1
    /\ frame.ticks > 0 /\ frame.ran
       => Len(game.monsters) <= ActiveCount(frame.monsters_before) + Cardinality(Newcomers)
    /\ \A n \in Newcomers :
          /\ n = Len(game.monsters)
          /\ game.monsters[n].y = game.camera_y - 100 * SC
          /\ game.score >= MONSTER_SPAWN_SCORE_MIN
          /\ \A i \in 1..(n - 1) : ~InBand(game.monsters[i].y, game.camera_y)
    /\ \A i \in 1..Len(game.monsters) :
          \A j \in 1..Len(frame.monsters_before) :
             /\ frame.monsters_before[j].active
             /\ frame.monsters_before[j].y = game.monsters[i].y
             /\ frame.monsters_before[j].y > frame.camera_before + WINDOW_HEIGHT * SC
             => ~InBand(game.monsters[i].y, game.camera_y)

\* A frame has spawned a monster while an active monster that has left the
\* band below is still in the pool.
C36_SpawnedAboveDeparted ==
    /\ SpawnedThisTick
    /\ \E i \in 1..(Len(game.monsters) - 1) :
          /\ game.monsters[i].active
          /\ game.monsters[i].y > game.camera_y + WINDOW_HEIGHT * SC

\* C37: after every frame and after init_game the player's x lies in
\* [-player.width, WINDOW_WIDTH].  A frame wraps the player at most once: the
\* position a wrap produces is not wrapped again, neither by the same frame
\* nor by a move of length zero.
C37_PlayerWithinWrapRange ==
    /\ game.player.x >= -game.player.width
    /\ game.player.x <= WINDOW_WIDTH * SC
    /\ frame.after_init.player.x >= -frame.after_init.player.width
    /\ frame.after_init.player.x <= WINDOW_WIDTH * SC
    /\ MovePlayer(game.player, 0).x = game.player.x
    /\ frame.ran
       => /\ UnwrappedX + game.player.width < 0 => game.player.x = WINDOW_WIDTH * SC
          /\ UnwrappedX > WINDOW_WIDTH * SC => game.player.x = -game.player.width

\* A tick has just wrapped the player from the right boundary to the left one.
C37_WrappedRight ==
    /\ frame.ran
    /\ UnwrappedX > WINDOW_WIDTH * SC
    /\ game.player.x = -game.player.width

\* C38: in every reachable state the player's horizontal speed is at most the
\* steering speed: |player.vx| <= PLAYER_SPEED.
C38_SpeedWithinSteeringSpeed ==
    /\ game.player.vx <= PLAYER_SPEED * SC
    /\ game.player.vx >= -PLAYER_SPEED * SC

\* C39: a step taken while game_running is false creates no projectile, and
\* unless it restarts the game it leaves num_projectiles, the projectile pool,
\* is_shooting and shoot_timer as they are, whatever the shoot key's state.
C39_NoShotWhileTerminal ==
    [][ ~game.game_running
        => /\ game'.num_projectiles <= game.num_projectiles
           /\ ~RestartHonored(game)
              => /\ game'.num_projectiles = game.num_projectiles
                 /\ game'.projectiles = game.projectiles
                 /\ game'.player.is_shooting = game.player.is_shooting
                 /\ game'.player.shoot_timer = game.player.shoot_timer ]_vars

\* A frame has just run with the shoot key held in a terminal session whose
\* cooldown is clear and whose pool has room.
C39_TriggerWhileTerminal ==
    /\ ~game.game_running
    /\ game.shoot_pressed
    /\ Stepped
    /\ ~frame.ran
    /\ ~game.player.is_shooting
    /\ game.num_projectiles < MAX_PROJECTILES

============================================================================
